---------------------------- MODULE Spec2Model ----------------------------
(***************************************************************************)
(* PromptMaster browser extension: the synchronisation / cache layer.      *)
(*                                                                         *)
(*   FeishuApiService   src/chrome-extension/modules/feishu-api.js         *)
(*   StorageManager     src/chrome-extension/modules/storage.js            *)
(*   service worker     src/chrome-extension/background.js (lines 1-714)   *)
(*   utilities          src/unnamed/part_001 (modules/utils.js)            *)
(*                                                                         *)
(* modules/config.js (CONFIG, ERROR_CODES, MESSAGE_TYPES) is not part of   *)
(* the sources: its durations and limits appear here scaled down, and its  *)
(* error codes by their names.                                             *)
(*                                                                         *)
(* Texts (prompt bodies, keywords) are sequences of one-character strings  *)
(* so that String.includes and String.toLowerCase are computed.            *)
(***************************************************************************)
EXTENDS Integers, Sequences, FiniteSets, TLC

\* ------------------------------------------------------------------ bounds
\* Date.now() runs over 0..MaxTime.
MaxTime == 2
\* The remote table holds at most MaxRemote records.
MaxRemote == 4
\* Of a full fetch the last MaxPageRequests list requests are remembered.
MaxPageRequests == 4
\* processPromptData is given at most MaxItems items at a time.
MaxItems == 3
\* CONFIG.TOKEN_CACHE_DURATION, scaled.
TokenCacheDuration == 1
\* CONFIG.CACHE_DURATION, scaled.
CacheDuration == 1
\* CONFIG.MAX_RECORDS_LIMIT, scaled.
MaxRecordsLimit == 3
\* CONFIG.MAX_RECORDS_WARNING, scaled down (below the cap)
MaxRecordsWarning == 1
\* Page size the remote list endpoint serves when asked for none, scaled.
RemotePageSize == 2
\* CONFIG.MAX_PAGE_SIZE, scaled.
MaxPageSize == 2
\* settings.maxRecentItems, scaled.
SettingsMaxRecentItems == 2

\* handleSearchPrompts: params.pageSize || 50
DefaultPageSize == 50
\* performSearch calls of the content script that await a response at once
MaxSearches == 2
\* checkClipboardContent invocations that may be started at once
MaxChecks == 2
\* CONFIG.CLIPBOARD.CHECK_INTERVAL, scaled.
ClipboardCheckInterval == 1
\* CONFIG.MIN_SEARCH_LENGTH
MinSearchLength == 1

\* handleSearchPrompts: settings.maxRecentItems || 10
DefaultMaxRecent == 10

VARIABLES
    now,             \* Date.now()
    remote,          \* the remote table: a sequence of raw items (environment)
    accessToken,     \* FeishuApiService.accessToken (NoToken = null)
    tokenExpiry,     \* FeishuApiService.tokenExpiry (time the token was obtained)
    tokenCall,       \* history: the last getAccessToken call made directly
    permanent,       \* chrome.storage.local[PERMANENT_PROMPTS] (present = FALSE: no such key)
    recent,          \* chrome.storage.sync[RECENT_PROMPTS]
    lastRefreshTime, \* chrome.storage.sync[LAST_REFRESH_TIME] (NoTime: no such key)
    syncCache,       \* chrome.storage.sync[CACHE]: key -> entry (present = FALSE: no such key)
    memCache,        \* StorageManager.cache.get('cache'): key -> entry
    localStore,      \* window.localStorage as used by CacheUtils: key -> entry
    cacheRet,        \* history: the last cache / snapshot call and what it returned
    fetch,           \* per caller: the locals of a running handleManualRefresh / getAllPrompts
    result,          \* per caller: the last response of handleManualRefresh
    searchRes,       \* the handleSearchPrompts call that has just returned, and its response
    config,          \* FeishuApiService.config: which credentials it holds
    apiCall,         \* history: the last apiRequest call made directly, and what it threw
    settings,        \* StorageManager.cache.get('settings'): the autoRefresh part
    autoRefreshInterval, \* background.js: let autoRefreshInterval (NoTimer: null / undefined)
    timers,          \* the interval timers that are live in the worker (environment)
    timerCall,       \* history: the last operation on the auto-refresh timer
    adders,          \* per caller: the locals of a running addRecentPrompt
    reply,           \* the last response handed to sendResponse by the message listener
    stateCache,      \* popup: state.cache, a Map key -> {data, timestamp}
    feishuConfig,    \* StorageManager.cache.get('feishuConfig'): the saved configuration
    registered,      \* what initialize() has registered in this worker lifetime
    content,         \* content script: state (selector, query, results, selection, timer)
    searches,        \* content script: the performSearch calls awaiting their response
    clipboard,       \* content script: state.clipboard
    checks,          \* content script: the checkClipboardContent invocations
    normalized       \* history: the last processPromptData call, its input and output

vars == <<now, remote, accessToken, tokenExpiry, tokenCall, permanent, recent,
          lastRefreshTime, syncCache, memCache, localStore, cacheRet, fetch,
          result, searchRes, config, apiCall, settings, autoRefreshInterval,
          timers, timerCall, adders, reply, stateCache, feishuConfig, registered,
          content, searches, clipboard, checks,
          normalized>>

tokenVars == <<accessToken, tokenExpiry>>
storeVars == <<permanent, recent, lastRefreshTime>>
cacheVars == <<syncCache, memCache, localStore, cacheRet>>
procVars  == <<fetch, result, searchRes>>
timerVars == <<settings, autoRefreshInterval, timers, timerCall>>
\* what the refresh, search, token and cache operations never touch
\* state outside the refresh, search, token, cache and timer code
contentVars == <<content, searches, clipboard, checks>>
sideVars  == <<stateCache, feishuConfig, registered, contentVars>>
auxVars   == <<config, apiCall, timerVars, adders, reply, sideVars, normalized>>

\* ------------------------------------------------------------- general
NoToken == 0
Min(a, b) == IF a < b THEN a ELSE b

\* Array.prototype.slice(0, n) for n >= 0
Slice(s, n) == SubSeq(s, 1, Min(n, Len(s)))

\* x || d on numbers: 0 (and undefined, modelled as 0) is falsy
OrDefault(x, d) == IF x = 0 THEN d ELSE x

\* String.prototype.toLowerCase over the model's alphabet
LowerChar(c) == IF c = "A" THEN "a" ELSE IF c = "B" THEN "b" ELSE c
ToLowerCase(s) == [i \in 1..Len(s) |-> LowerChar(s[i])]

\* String.prototype.includes
Includes(s, k) ==
    \E i \in 0..(Len(s) - Len(k)) : SubSeq(s, i + 1, i + Len(k)) = k

\* ------------------------------------------------------ part_001: utils
\* (variant: an entry expires at the instant its duration has elapsed)
IsExpiredLate(timestamp, duration, t) == (t - timestamp) > duration + 1

IsExpiredAtBoundary(timestamp, duration, t) == (t - timestamp) >= duration

\* TimeUtils.isExpired(timestamp, duration) evaluated at time t
IsExpired(timestamp, duration, t) == (t - timestamp) > duration

\* The word classes ErrorHandler.handleError looks for in error.message, in
\* the order it tests them; "plain" is a message holding none of them.
MsgClasses == {"plain", "network", "auth", "config", "rate limit"}

\* ErrorHandler.handleError: the code of the errorInfo it returns
HandleErrorCode(code, msg) ==
    CASE msg = "network"    -> "NETWORK_ERROR"
      [] msg = "auth"       -> "AUTH_ERROR"
      [] msg = "config"     -> "CONFIG_ERROR"
      [] msg = "rate limit" -> "RATE_LIMIT_ERROR"
      [] OTHER              -> code

\* ------------------------------------------------------- the remote side
\* Raw items of the remote table. Item k has record_id k; its fields.prompt
\* is one of a few texts, among them the empty text and a blank one.
RawText(k) ==
    CASE k % 5 = 1 -> <<"a">>
      [] k % 5 = 2 -> <<"A", "b">>
      [] k % 5 = 3 -> <<>>
      [] k % 5 = 4 -> <<"b">>
      [] OTHER     -> <<" ">>

RawCategory(k) == IF k % 2 = 1 THEN "x" ELSE ""

\* A table of n items; in the "blank" variant the items of the first page
\* carry no prompt text.
RawItem(variant, k) ==
    [record_id |-> k,
     fields |-> [prompt   |-> IF variant = "blank" /\ k <= RemotePageSize
                                THEN <<>> ELSE RawText(k),
                 category |-> RawCategory(k)]]

Table(variant, n) == [k \in 1..n |-> RawItem(variant, k)]

Tables == { Table(v, n) : v \in {"mixed", "blank"}, n \in 0..MaxRemote }

\* GET .../records: the page that starts after `token` records (NoToken: the
\* first page), with has_more and the page_token of the next page.
ListPage(table, token) ==
    LET last == Min(token + RemotePageSize, Len(table))
    IN  [items      |-> SubSeq(table, token + 1, last),
         has_more   |-> last < Len(table),
         page_token |-> IF last < Len(table) THEN last ELSE NoToken,
         total      |-> Len(table)]

\* Number of pages the remote serves for a table
PageCount(table) ==
    IF Len(table) = 0 THEN 1
    ELSE (Len(table) + RemotePageSize - 1) \div RemotePageSize

\* Outcomes of one remote request: data.code 0, the token-invalid codes
\* (99991663 / 99991668), the rate-limit code (99991661), any other code,
\* or fetch() rejecting; msg is the word class of data.msg.
RequestOutcomes ==
    [kind : {"ok", "token_invalid", "rate_limit", "other"}, msg : {"plain"}]
      \cup [kind : {"network"}, msg : {"network"}]

\* Outcomes of the token endpoint: a token, a refusal, or fetch() rejecting.
TokenValues == {1, 2}
TokenOutcomes ==
    [kind : {"ok"}, token : TokenValues, msg : {"plain"}]
      \cup [kind : {"refused"}, token : {NoToken}, msg : MsgClasses]
      \cup [kind : {"network"}, token : {NoToken}, msg : {"network"}]

\* ------------------------------------------------- feishu-api.js: token
\* FeishuApiService.getAccessToken at time t, the token endpoint answering
\* `out` if it is asked. ok = FALSE: the call throws an error with `code`.
GetAccessToken(tok, exp, t, out) ==
    IF tok # NoToken /\ ~IsExpired(exp, TokenCacheDuration, t)
    THEN [ok |-> TRUE, token |-> tok, accessToken |-> tok, tokenExpiry |-> exp,
          requested |-> FALSE, code |-> "none"]
    ELSE IF out.kind = "ok"
    THEN [ok |-> TRUE, token |-> out.token, accessToken |-> out.token,
          tokenExpiry |-> t, requested |-> TRUE, code |-> "none"]
    ELSE [ok |-> FALSE, token |-> NoToken, accessToken |-> tok,
          tokenExpiry |-> exp, requested |-> TRUE,
          code |-> IF out.kind = "network" THEN "NETWORK_ERROR"
                   ELSE HandleErrorCode("AUTH_ERROR", out.msg)]

\* The answers of the token endpoint that matter to a call: all of them when
\* the call reaches the endpoint, one (unused) otherwise.
TokenAnswers(tok, exp, t) ==
    LET any == [kind |-> "ok", token |-> 1, msg |-> "plain"]
    IN  IF GetAccessToken(tok, exp, t, any).requested
        THEN {any, [kind |-> "refused", token |-> NoToken, msg |-> "plain"],
                   [kind |-> "network", token |-> NoToken, msg |-> "network"]}
        ELSE {any}

\* FeishuApiService.apiRequest after the token was obtained: the code of the
\* error it throws for a remote outcome ("none": it returns the data).
ApiErrorCode(out) ==
    CASE out.kind = "ok"            -> "none"
      [] out.kind = "token_invalid" -> HandleErrorCode("AUTH_ERROR", out.msg)
      [] out.kind = "rate_limit"    -> HandleErrorCode("RATE_LIMIT_ERROR", out.msg)
      [] out.kind = "network"       -> "NETWORK_ERROR"
      [] OTHER                      -> HandleErrorCode("UNKNOWN_ERROR", out.msg)

\* (variant: no answer clears the cached token)
KeepsToken(out) == FALSE

\* apiRequest, token-invalid branch: accessToken = null, tokenExpiry = 0
InvalidatesToken(out) == out.kind = "token_invalid"

\* ------------------------------------------- feishu-api.js: normalizer
\* processPromptData: map each item to a prompt record, then keep those
\* whose prompt is truthy (a non-empty string).
\* parseVariables(fields.variables). The field is absent (falsy), an
\* array, a string that is JSON of an array, or any other string, which is
\* split at commas, each piece trimmed and the empty pieces dropped.
TrimPiece(piece) ==
    CASE piece = " "   -> ""
      [] piece = " n " -> "n"
      [] OTHER         -> piece

ParseVariables(fields) ==
    IF "variables" \notin DOMAIN fields THEN <<>>
    ELSE IF fields.variables.kind \in {"array", "json"} THEN fields.variables.items
    ELSE SelectSeq([i \in 1..Len(fields.variables.items) |->
                       TrimPiece(fields.variables.items[i])],
                   LAMBDA v : v # "")

PromptOf(item) ==
    [id       |-> item.record_id,
     variables |-> ParseVariables(item.fields),
     prompt   |-> IF "prompt" \in DOMAIN item.fields THEN item.fields.prompt
                  ELSE <<>>,
     category |-> IF item.fields.category = "" THEN "other"
                  ELSE item.fields.category]

Truthy(text) == Len(text) > 0

ProcessPromptData(items) ==
    SelectSeq([i \in 1..Len(items) |-> PromptOf(items[i])],
              LAMBDA r : Truthy(r.prompt))

\* ------------------------------------------- feishu-api.js: full fetch
\* The callers of handleManualRefresh: the message dispatcher (a user's
\* manualRefresh message).
Procs == {"user", "timer"}
Users == {"user"}

\* getAllPrompts, lines 239-245: the request body built for one iteration
RequestBody(pageToken) ==
    [page_size |-> MaxPageSize, page_token |-> pageToken]

\* getAllPrompts, lines 247-252: what is handed to apiRequest, and so what
\* the remote receives: the records URL without a query and {method: 'GET'}.
\* The request body is not part of it.
ListRequest(requestBody) ==
    [method |-> "GET", page_token |-> NoToken]

\* (variant: the cap test never fires)
CapNeverReached(totalFetched) == FALSE

\* getAllPrompts, lines 263-266: the cap test after a page was added
CapReached(totalFetched) == totalFetched >= MaxRecordsLimit

\* getAllPrompts, line 273: while (pageToken)
LoopContinues(pageToken) == pageToken # NoToken

\* getAllPrompts, lines 277-284: the value returned after the loop
FetchSuccess(allPrompts, t) ==
    [success |-> TRUE,
     data |-> [prompts |-> allPrompts, total |-> Len(allPrompts),
               lastRefreshTime |-> t]]

\* ------------------------------------------------ storage.js: snapshot
NoTime == -1
NoSnapshot == [present |-> FALSE, prompts |-> <<>>, count |-> 0, lastUpdated |-> NoTime]

\* (variant: the snapshot is written without its records)
SnapshotOfNothing(prompts, t) ==
    [present |-> TRUE, prompts |-> <<>>, count |-> 0, lastUpdated |-> t]

\* (variant: the snapshot is written without the time of the write)
SnapshotUnstamped(prompts, t) ==
    [present |-> TRUE, prompts |-> prompts, count |-> Len(prompts),
     lastUpdated |-> 0]

\* (variant: the count is not taken from the records written)
SnapshotMiscounted(prompts, t) ==
    [present |-> TRUE, prompts |-> prompts, count |-> 0, lastUpdated |-> t]

\* savePermanentPrompts: the object written under PERMANENT_PROMPTS
SnapshotOf(prompts, t) ==
    [present |-> TRUE, prompts |-> prompts, count |-> Len(prompts),
     lastUpdated |-> t]

\* getPermanentPrompts: result[KEY] || []  (the stored object, or an empty
\* array, which has no .prompts)
GetPermanentPrompts(stored) ==
    IF stored.present
    THEN [hasPrompts |-> TRUE, prompts |-> stored.prompts,
          count |-> stored.count, lastUpdated |-> stored.lastUpdated]
    ELSE [hasPrompts |-> FALSE, prompts |-> <<>>, count |-> 0,
          lastUpdated |-> NoTime]

\* (variant: the entry with the same id is not dropped)
AddRecentKeepsOld(list, prompt, t) ==
    Slice(<<[id |-> prompt.id, prompt |-> prompt.prompt,
             category |-> prompt.category, recent |-> TRUE]>> \o list,
          SettingsMaxRecentItems)

\* addRecentPrompt: drop the entry with the same id, put the new entry
\* first, keep settings.maxRecentItems entries. (The entry's usedAt, the
\* time t of the call, is read by nothing and is left out of the entry.)
AddRecent(list, prompt, t) ==
    Slice(<<[id |-> prompt.id, prompt |-> prompt.prompt,
             category |-> prompt.category, recent |-> TRUE]>>
            \o SelectSeq(list, LAMBDA e : e.id # prompt.id),
          SettingsMaxRecentItems)

\* ---------------------------------------------------------- initial state
\* sent, returned, outcomes are history: of the last list requests, the
\* page_token sent, the page_token returned and the outcome; turn is the
\* parity of the number of iterations of the page loop.
IdleFetch ==
    [pc |-> "idle", allPrompts |-> <<>>, pageToken |-> NoToken,
     totalFetched |-> 0, sent |-> <<>>, returned |-> <<>>, outcomes |-> <<>>,
     turn |-> 0, capped |-> FALSE, wrote |-> FALSE, warning |-> "none"]

\* The history of the last MaxPageRequests requests
Window(history) ==
    IF Len(history) > MaxPageRequests THEN Tail(history) ELSE history

\* cause and failKind are history: which step failed, and on which remote outcome
\* hadSnapshot: whether a snapshot was stored when the refresh began
NoResult ==
    [status |-> "none", success |-> FALSE, total |-> 0, thrown |-> "none",
     cause |-> "none", failKind |-> "none", hadSnapshot |-> FALSE]

\* sort: the sortBy / sortOrder of the request
NoSort == [sortBy |-> "none", sortOrder |-> "none"]
NoSearch ==
    [done |-> FALSE, seq |-> 0, keyword |-> <<>>, category |-> "", maxResults |-> 0,
     sort |-> NoSort,
     success |-> FALSE, source |-> "none", prompts |-> <<>>,
     remoteCalled |-> FALSE, remoteFailed |-> FALSE, hadSnapshot |-> FALSE,
     afterFailedRefresh |-> FALSE]

\* tokenCall: the last getAccessToken call (ok: it returned `token`;
\* requested: it asked the token endpoint), the time its token was obtained,
\* whether the token has been left alone since (clean), and the same facts
\* about the call before it.
NoTokenCall ==
    [seq |-> 0, ok |-> FALSE, token |-> NoToken, requested |-> FALSE,
     obtainedAt |-> NoTime, clean |-> FALSE, prevOk |-> FALSE,
     prevRequested |-> FALSE, inval |-> "none", invSeq |-> 0,
     prevInval |-> "none"]

\* Cache keys: one that contains 'feishu_' and one that does not.
CacheKeys == {"feishu_list", "prompts_list"}
CacheData == {1, 2}
NoData == 0
NoEntry == [present |-> FALSE, data |-> NoData, timestamp |-> NoTime, duration |-> 0]

\* cacheRet: the last cache or snapshot call, its arguments and its return
\* value (value = NoData: null).
NoCacheCall ==
    [op |-> "none", key |-> "none", expired |-> FALSE, value |-> NoData,
     ok |-> FALSE, input |-> <<>>, time |-> NoTime, followsSave |-> FALSE,
     followsClear |-> FALSE, hasPrompts |-> FALSE, prompts |-> <<>>,
     count |-> 0, lastUpdated |-> NoTime]

\* FeishuApiService.config after initConfig: whether appId / appSecret are
\* non-empty strings
\* app: which application the credentials name (0: this.config is null)
NoConfig == [appId |-> FALSE, appSecret |-> FALSE, app |-> 0]
FullConfig == [appId |-> TRUE, appSecret |-> TRUE, app |-> 1]
Configs == [appId : BOOLEAN, appSecret : BOOLEAN, app : {1}]
\* The configurations a SAVE_SETTINGS request may carry
SentConfigs == [appId : {TRUE}, appSecret : {TRUE}, app : {1, 2}]

\* FeishuApiService.initConfig(userConfig): if (this.config) return
\* this.config; else this.config is built from userConfig.
InitConfig(held, userConfig) ==
    IF held # NoConfig THEN held ELSE userConfig

\* apiCall: the last direct apiRequest call: the answer that ended it (of
\* the token endpoint: kind "token"; else of the remote: kind, msg), the
\* code of the error thrown ("none": data returned), and how many requests
\* went to the token endpoint and to the remote, and the configuration
\* (this.config) the requests were built from.
NoApiCall ==
    [seq |-> 0, kind |-> "none", msg |-> "none", code |-> "none",
     tokenRequests |-> 0, requests |-> 0, used |-> NoConfig]

\* The auto-refresh timer. Intervals are minutes; 0 stands for an interval
\* that is absent (undefined, null or 0: all falsy).
NoTimer == 0
\* Validator.validateSettings: interval < 5 is refused
MinInterval == 5
\* Validator.validateSettings: interval > 1440 is refused
MaxInterval == 1440
\* startAutoRefresh: interval || settings.autoRefresh?.interval || 30
DefaultInterval == 30
\* At most MaxTimers interval timers are live in the model.
MaxTimers == 3

IntervalInputs == {0, 1, MinInterval, MaxInterval + 1}

\* settings.autoRefresh: enabled is true, false or not there at all
\* StorageManager: its initialized flag, and the autoRefresh part of the
\* settings object it caches
SettingsValues ==
    [initialized : {TRUE}, enabled : {"true", "false", "unset"},
     interval : IntervalInputs]
DefaultSettings == [initialized |-> FALSE, enabled |-> "unset", interval |-> 0]

\* timerCall: the last operation on the timer, and (for the message
\* handlers) the enabled flag it was sent and the success it answered
NoTimerCall ==
    [seq |-> 0, op |-> "none", enabled |-> FALSE, success |-> FALSE,
     requested |-> "none"]

\* registered: the runtime.onMessage listeners added and the keep-alive
\* intervals created; 2 stands for two or more.
NothingRegistered == [listeners |-> 0, keepAlives |-> 0]

\* content: the content script's state object. selector: state.selector is
\* an element (FALSE: null); selectedIndex as in the code, -1 for none;
\* searchTimeout: whether state.searchTimeout holds a timer id, whether that
\* timer is still to fire, and the query its callback will search for;
\* rendered: the number of result items in the selector's DOM; fresh
\* (history): whether results were set by the response to the search sent
\* last ("latest"), by the response to an earlier one ("stale"), or by no
\* response ("none").
NoTimeout == [held |-> FALSE, pending |-> FALSE, query |-> <<>>]
InactiveContent ==
    [isActive |-> FALSE, selector |-> FALSE, searchQuery |-> <<>>,
     results |-> <<>>, selectedIndex |-> -1, searchTimeout |-> NoTimeout,
     rendered |-> 0, fresh |-> "none"]

\* searches: of a performSearch call past its sendMessage, the query, and
\* (history) whether no search has been sent since.
Searchers == 1..MaxSearches
IdleSearch == [pc |-> "idle", query |-> <<>>, latest |-> FALSE]

\* clipboard: state.clipboard. lastCheckTime starts at 0 in the code, far
\* before any Date.now(): NoTime here. checkInterval: an interval is live.
NoText == 0
InitClipboard ==
    [isAutoCaptureEnabled |-> TRUE, isProcessing |-> FALSE,
     lastCheckTime |-> NoTime, lastContent |-> NoText, checkInterval |-> FALSE]

\* checks: of a checkClipboardContent invocation, where it is (idle: not
\* running, reading: awaiting navigator.clipboard.read(), processing:
\* awaiting the hash and the dialog for a new text) and, as history,
\* whether the last invocation returned at its guard and whether it ended
\* in its catch block.
Checkers == 1..MaxChecks
IdleCheck ==
    [pc |-> "idle", text |-> NoText, skipped |-> FALSE, failed |-> FALSE]

\* The callers of addRecentPrompt that may run at the same time. Of a call:
\* the prompt it adds, the list its getRecentPrompts returned, whether that
\* read succeeded, and whether the call completed (its storageSet resolved).
Adders == {1, 2}
NoPrompt == [id |-> 0, prompt |-> <<>>, category |-> ""]
IdleAdder ==
    [pc |-> "idle", prompt |-> NoPrompt, read |-> <<>>, readOk |-> TRUE,
     done |-> FALSE]

\* What the sender of a message gets: the object passed to sendResponse
\* (whether it has a boolean success, its success, its error, its code), or
\* a rejection nobody handles. request, failed: the message it answers and
\* whether an awaited fetch or storage call of its handler failed.
NoReply ==
    [seq |-> 0, request |-> "none", failed |-> FALSE, rejected |-> FALSE,
     hasSuccess |-> FALSE, success |-> FALSE, error |-> "none", code |-> "none"]

NoNormalized == [called |-> FALSE, input |-> <<>>, output |-> <<>>]

\* What every run starts from: empty storage, no token, nothing in flight.
InitCommon ==
    /\ now = 0
    /\ accessToken = NoToken
    /\ tokenExpiry = 0
    /\ tokenCall = NoTokenCall
    /\ recent = <<>>
    /\ lastRefreshTime = NoTime
    /\ syncCache = [k \in CacheKeys |-> NoEntry]
    /\ memCache = [k \in CacheKeys |-> NoEntry]
    /\ localStore = [k \in CacheKeys |-> NoEntry]
    /\ cacheRet = NoCacheCall
    /\ fetch = [p \in Procs |-> IdleFetch]
    /\ result = [p \in Procs |-> NoResult]
    /\ searchRes = NoSearch
    /\ apiCall = NoApiCall
    /\ timerCall = NoTimerCall
    /\ adders = [c \in Adders |-> IdleAdder]
    /\ reply = NoReply
    /\ stateCache = [k \in CacheKeys |-> NoEntry]
    /\ registered = NothingRegistered
    /\ content = InactiveContent
    /\ searches = [s \in Searchers |-> IdleSearch]
    /\ clipboard = InitClipboard
    /\ checks = [k \in Checkers |-> IdleCheck]
    /\ normalized = NoNormalized

Init ==
    /\ InitCommon
    /\ permanent = NoSnapshot
    /\ remote \in Tables
    /\ config = FullConfig
    /\ feishuConfig = config
    /\ settings = DefaultSettings
    /\ autoRefreshInterval = NoTimer
    /\ timers = {}

\* The same, with one remote table: for the specifications of the parts
\* that never call the remote list or search endpoints.
InitLocal ==
    /\ Init
    /\ remote = Table("mixed", MaxRemote)

\* Date.now() advances
Tick ==
    /\ now < MaxTime
    /\ now' = now + 1
    /\ searchRes' = NoSearch
    /\ UNCHANGED <<auxVars, remote, tokenVars, tokenCall, storeVars, cacheVars, fetch, result>>

\* ------------------------------------------ background.js: manual refresh
\* handleManualRefresh is entered; getAllPrompts initialises its locals.
ManualRefreshStart(p) ==
    /\ fetch[p].pc = "idle"
    /\ fetch' = [fetch EXCEPT ![p] = [IdleFetch EXCEPT !.pc = "paging"]]
    /\ result' = [result EXCEPT ![p] =
           [NoResult EXCEPT !.status = "pending", !.hadSnapshot = permanent.present]]
    /\ searchRes' = NoSearch
    /\ UNCHANGED <<auxVars, now, remote, tokenVars, tokenCall, storeVars, cacheVars>>

\* The response of handleManualRefresh when getAllPrompts reported failure
\* (lines 306-315): throw new Error(response.error), caught, success: false.
RefreshFailure(pending, thrown, cause, kind) ==
    [pending EXCEPT !.status = "done", !.success = FALSE, !.thrown = thrown,
                    !.cause = cause, !.failKind = kind]

\* The success response (lines 299-305): {success: true, data: {...response.data}}
RefreshSuccess(pending, response) ==
    [pending EXCEPT !.status = "done", !.success = response.success,
                    !.total = response.data.total]

\* What an iteration that brought the running total to totalFetched logs
\* with Logger.warn (lines 263-271): the cap test breaks out of the loop
\* before the threshold test, which asks for totalFetched >= and ===
\* MAX_RECORDS_WARNING.
LoopWarning(totalFetched) ==
    IF CapReached(totalFetched) THEN "cap"
    ELSE IF totalFetched >= MaxRecordsWarning /\ totalFetched = MaxRecordsWarning
    THEN "threshold"
    ELSE "none"

\* One iteration of the do/while loop of getAllPrompts: apiRequest (token,
\* then the list request), processPromptData, the cap test, the loop test.
\* Any error ends getAllPrompts with success: false (lines 286-293).
PageRequest(p) ==
    /\ fetch[p].pc = "paging"
    /\ \E tout \in TokenAnswers(accessToken, tokenExpiry, now),
          out \in RequestOutcomes :
        LET f    == fetch[p]
            tk   == GetAccessToken(accessToken, tokenExpiry, now, tout)
            req  == ListRequest(RequestBody(f.pageToken))
            page == ListPage(remote, req.page_token)
            got  == ProcessPromptData(page.items)
            tot  == f.totalFetched + Len(got)
        IN
        IF ~tk.ok
        THEN /\ accessToken' = tk.accessToken
             /\ tokenExpiry' = tk.tokenExpiry
             /\ fetch' = [fetch EXCEPT ![p] = IdleFetch]
             /\ result' = [result EXCEPT ![p] = RefreshFailure(result[p], tk.code, "token", tout.kind)]
        ELSE IF out.kind # "ok"
        THEN /\ accessToken' = IF InvalidatesToken(out) THEN NoToken ELSE tk.accessToken
             /\ tokenExpiry' = IF InvalidatesToken(out) THEN 0 ELSE tk.tokenExpiry
             /\ fetch' = [fetch EXCEPT ![p] = IdleFetch]
             /\ result' = [result EXCEPT ![p] =
                    RefreshFailure(result[p], ApiErrorCode(out), "remote", out.kind)]
        ELSE /\ accessToken' = tk.accessToken
             /\ tokenExpiry' = tk.tokenExpiry
             /\ fetch' = [fetch EXCEPT ![p] =
                    [f EXCEPT !.allPrompts = f.allPrompts \o got,
                              !.totalFetched = tot,
                              !.pageToken = page.page_token,
                              !.sent = Window(Append(f.sent, req.page_token)),
                              !.returned = Window(Append(f.returned, page.page_token)),
                              !.outcomes = Window(Append(f.outcomes, out.kind)),
                              !.turn = 1 - f.turn,
                              !.capped = CapReached(tot),
                              !.warning = LoopWarning(tot),
                              !.pc = IF CapReached(tot) THEN "saving"
                                     ELSE IF LoopContinues(page.page_token)
                                          THEN "paging" ELSE "saving"]]
             /\ UNCHANGED result
    /\ searchRes' = NoSearch
    /\ UNCHANGED <<auxVars, now, remote, tokenCall, storeVars, cacheVars>>

\* handleManualRefresh, line 294: await savePermanentPrompts(prompts);
\* a failing localSet is rethrown and ends the refresh with success: false.
SavePermanent(p) ==
    /\ fetch[p].pc = "saving"
    /\ \E writeOk \in BOOLEAN :
        IF writeOk
        THEN /\ permanent' = SnapshotOf(FetchSuccess(fetch[p].allPrompts, now).data.prompts, now)
             /\ fetch' = [fetch EXCEPT ![p].pc = "stamping", ![p].wrote = TRUE]
             /\ UNCHANGED result
        ELSE /\ fetch' = [fetch EXCEPT ![p] = IdleFetch]
             /\ result' = [result EXCEPT ![p] =
                    RefreshFailure(result[p], "UNKNOWN_ERROR", "storage", "none")]
             /\ UNCHANGED permanent
    /\ searchRes' = NoSearch
    /\ UNCHANGED <<auxVars, now, remote, tokenVars, tokenCall, recent, lastRefreshTime,
                   cacheVars>>

\* handleManualRefresh, lines 295-305: await saveLastRefreshTime(); then the
\* success response.
StampRefresh(p) ==
    /\ fetch[p].pc = "stamping"
    /\ \E writeOk \in BOOLEAN :
        IF writeOk
        THEN /\ lastRefreshTime' = now
             /\ result' = [result EXCEPT ![p] =
                    RefreshSuccess(result[p], FetchSuccess(fetch[p].allPrompts, now))]
        ELSE /\ result' = [result EXCEPT ![p] =
                    RefreshFailure(result[p], "UNKNOWN_ERROR", "storage", "none")]
             /\ UNCHANGED lastRefreshTime
    /\ fetch' = [fetch EXCEPT ![p] = IdleFetch]
    /\ searchRes' = NoSearch
    /\ UNCHANGED <<auxVars, now, remote, tokenVars, tokenCall, permanent, recent,
                   cacheVars>>

\* ------------------------------------------------ background.js: search
\* The keywords searched for: none, one that occurs in stored and remote
\* texts in either letter case, one that occurs nowhere.
Keywords == {<<>>, <<"A">>, <<"z">>}
CategoryFilters == {"", "x"}
PageSizes == {0, 1}

\* (variant: the category filter is not applied)
SnapshotPassKeywordOnly(prompt, keyword, category) ==
    ~(Len(keyword) > 0
      /\ ~Includes(ToLowerCase(prompt.prompt), ToLowerCase(keyword)))

\* searchInCache, lines 198-206: the predicate applied to snapshot records
\* (keyword && ... : an empty keyword filters nothing)
SnapshotPass(prompt, keyword, category) ==
    /\ ~(Len(keyword) > 0
         /\ ~Includes(ToLowerCase(prompt.prompt), ToLowerCase(keyword)))
    /\ ~(category # "" /\ prompt.category # category)

\* searchInCache, lines 214-219: the predicate applied to recent entries
RecentPass(item, keyword) ==
    ~(Len(keyword) > 0
      /\ ~Includes(ToLowerCase(item.prompt), ToLowerCase(keyword)))

\* (variant: the snapshot is not searched)
SearchInCacheRecentOnly(snap, rec, keyword, category, maxResults) ==
    Slice(SelectSeq(rec, LAMBDA e : RecentPass(e, keyword)), maxResults)

\* searchInCache: snapshot matches first, recent matches in the room left
SearchInCache(snap, rec, keyword, category, maxResults) ==
    LET fromSnap ==
            IF snap.hasPrompts
            THEN Slice(SelectSeq(snap.prompts,
                                 LAMBDA r : SnapshotPass(r, keyword, category)),
                       maxResults)
            ELSE <<>>
        fromRecent ==
            IF Len(rec) > 0
            THEN Slice(SelectSeq(rec, LAMBDA e : RecentPass(e, keyword)),
                       maxResults - Len(fromSnap))
            ELSE <<>>
    IN  fromSnap \o fromRecent

\* handleSearchPrompts, lines 144-147
MaxResults(pageSize) ==
    Min(OrDefault(pageSize, DefaultPageSize),
        OrDefault(SettingsMaxRecentItems, DefaultMaxRecent))

\* (variant: a single local result is not served)
ServeLocalMoreThanOne(cached) == Len(cached) > 1

\* handleSearchPrompts, line 151: the local result is served when non-empty
ServeLocal(cached) == Len(cached) > 0

\* POST .../records/search as requested by searchPrompts (lines 158-201):
\* the items whose prompt contains the keyword and whose category is the
\* one asked for, at most page_size of them.
SearchRecords(table, keyword, category, pageSize) ==
    Slice(SelectSeq(table, LAMBDA it :
              /\ (Len(keyword) > 0 => Includes(it.fields.prompt, keyword))
              /\ (category # "" => it.fields.category = category)),
          Min(pageSize, MaxPageSize))

\* handleSearchPrompts as a whole, for a request {keyword, filter, pageSize,
\* sortBy, sortOrder}: the handler reads keyword, filter and pageSize.
SearchWith(sort) ==
    /\ \E kw \in Keywords, cat \in CategoryFilters, ps \in PageSizes :
           LET maxResults == MaxResults(ps)
               cached == SearchInCache(GetPermanentPrompts(permanent), recent,
                                       kw, cat, maxResults)
               base == [done |-> TRUE,
                     seq |-> 1 - searchRes.seq, keyword |-> kw, category |-> cat,
                        sort |-> sort,
                        maxResults |-> maxResults, success |-> FALSE,
                        source |-> "none", prompts |-> <<>>,
                        remoteCalled |-> FALSE, remoteFailed |-> FALSE,
                        hadSnapshot |-> permanent.present /\ Len(permanent.prompts) > 0,
                        afterFailedRefresh |->
                            \E p \in Procs : /\ result[p].status = "done"
                                             /\ ~result[p].success
                                             /\ result[p].cause \in {"token", "remote"}]
           IN
           IF ServeLocal(cached)
           THEN /\ searchRes' = [base EXCEPT !.success = TRUE, !.source = "cache",
                                             !.prompts = cached]
                /\ UNCHANGED <<tokenVars, recent>>
           ELSE \E tout \in TokenAnswers(accessToken, tokenExpiry, now) :
                LET tk == GetAccessToken(accessToken, tokenExpiry, now, tout) IN
                IF ~tk.ok
                THEN /\ searchRes' = [base EXCEPT !.remoteCalled = TRUE,
                                                  !.remoteFailed = TRUE]
                     /\ accessToken' = tk.accessToken
                     /\ tokenExpiry' = tk.tokenExpiry
                     /\ UNCHANGED recent
                ELSE \E out \in RequestOutcomes :
                     IF out.kind # "ok"
                     THEN /\ searchRes' = [base EXCEPT !.remoteCalled = TRUE,
                                                       !.remoteFailed = TRUE]
                          /\ accessToken' = IF InvalidatesToken(out) THEN NoToken
                                            ELSE tk.accessToken
                          /\ tokenExpiry' = IF InvalidatesToken(out) THEN 0
                                            ELSE tk.tokenExpiry
                          /\ UNCHANGED recent
                     ELSE LET found == ProcessPromptData(
                                         SearchRecords(remote, kw, cat, maxResults))
                          IN  /\ accessToken' = tk.accessToken
                              /\ tokenExpiry' = tk.tokenExpiry
                              /\ IF Len(found) = 0
                                 THEN /\ searchRes' = [base EXCEPT !.success = TRUE,
                                                                   !.remoteCalled = TRUE]
                                      /\ UNCHANGED recent
                                 ELSE \E writeOk \in BOOLEAN :
                                      IF writeOk
                                      THEN /\ recent' = AddRecent(recent, found[1], now)
                                           /\ searchRes' = [base EXCEPT
                                                  !.success = TRUE, !.prompts = found,
                                                  !.remoteCalled = TRUE]
                                      ELSE /\ searchRes' = [base EXCEPT !.remoteCalled = TRUE]
                                           /\ UNCHANGED recent
    /\ UNCHANGED <<auxVars, now, remote, tokenCall, permanent, lastRefreshTime, cacheVars,
                   fetch, result>>

\* A search request without sort options
Search == SearchWith(NoSort)

\* A search request with or without sort options
SortOptions ==
    {NoSort} \cup [sortBy : {"id", "category"}, sortOrder : {"asc", "desc"}]

SearchSorted == \E sort \in SortOptions : SearchWith(sort)

\* Searches on a worker that holds the snapshot of an earlier refresh
InitQuery ==
    /\ InitCommon
    /\ remote \in Tables
    /\ permanent = SnapshotOf(ProcessPromptData(remote), 0)
    /\ config = FullConfig
    /\ feishuConfig = config
    /\ settings = DefaultSettings
    /\ autoRefreshInterval = NoTimer
    /\ timers = {}

NextQuery == SearchSorted

SpecQuery == InitQuery /\ [][NextQuery]_vars

\* ------------------------------------------------ direct token calls
\* A caller awaits feishuApiService.getAccessToken().
CallGetAccessToken ==
    /\ \E tout \in (IF GetAccessToken(accessToken, tokenExpiry, now,
                                      [kind |-> "ok", token |-> 1, msg |-> "plain"]).requested
                    THEN TokenOutcomes
                    ELSE {[kind |-> "ok", token |-> 1, msg |-> "plain"]}) :
        LET tk == GetAccessToken(accessToken, tokenExpiry, now, tout) IN
        /\ accessToken' = tk.accessToken
        /\ tokenExpiry' = tk.tokenExpiry
        /\ tokenCall' = [seq |-> 1 - tokenCall.seq, ok |-> tk.ok,
                         token |-> tk.token, requested |-> tk.requested,
                         obtainedAt |-> IF tk.ok THEN tk.tokenExpiry ELSE NoTime,
                         clean |-> tk.ok, prevOk |-> tokenCall.ok /\ tokenCall.clean,
                         prevRequested |-> tokenCall.requested,
                         inval |-> "none", invSeq |-> tokenCall.invSeq,
                         prevInval |-> tokenCall.inval]
    /\ UNCHANGED <<auxVars, now, remote, storeVars, cacheVars, procVars>>

\* (variant: an invalidation leaves the cached token in place)
KeptToken(tok, exp) == [accessToken |-> tok, tokenExpiry |-> exp]

\* this.accessToken = null; this.tokenExpiry = 0; whatever they were
ClearedToken(tok, exp) == [accessToken |-> NoToken, tokenExpiry |-> 0]

\* Of the last invalidation since the last getAccessToken call, tokenCall
\* keeps the kind (inval) and a parity bit that every invalidation flips;
\* a call keeps the kind of the invalidation it followed (prevInval).
Invalidated(kind) ==
    [tokenCall EXCEPT !.clean = FALSE, !.inval = kind,
                      !.invSeq = 1 - tokenCall.invSeq]

\* apiRequest, lines 118-130, on a request the remote answers with a
\* token-invalid code: accessToken = null, tokenExpiry = 0. The request
\* carried a token: one is cached, or the request was in flight when the
\* token was invalidated.
TokenRejected ==
    /\ accessToken # NoToken \/ tokenCall.inval # "none"
    /\ \E out \in RequestOutcomes :
        /\ InvalidatesToken(out)
        /\ accessToken' = ClearedToken(accessToken, tokenExpiry).accessToken
        /\ tokenExpiry' = ClearedToken(accessToken, tokenExpiry).tokenExpiry
    /\ tokenCall' = Invalidated("rejected")
    /\ UNCHANGED <<auxVars, now, remote, storeVars, cacheVars, procVars>>

\* CacheUtils.clearCache(pattern): removes the localStorage keys that
\* contain the pattern
ClearMatching(store, pattern) ==
    [k \in CacheKeys |->
        IF pattern = "feishu_" /\ k = "feishu_list" THEN NoEntry ELSE store[k]]

\* handleClearCache: await storageManager.clearCache(); then
\* feishuApiService.clearCache(). A failing storageRemove ends the handler
\* before the token is cleared.
HandleClearCache ==
    /\ \E removeOk \in BOOLEAN :
        /\ cacheRet' = [NoCacheCall EXCEPT !.op = "clearCache", !.ok = removeOk]
        /\ IF removeOk
           THEN /\ syncCache' = [k \in CacheKeys |-> NoEntry]
                /\ memCache' = [k \in CacheKeys |-> NoEntry]
                /\ accessToken' = ClearedToken(accessToken, tokenExpiry).accessToken
                /\ tokenExpiry' = ClearedToken(accessToken, tokenExpiry).tokenExpiry
                /\ localStore' = ClearMatching(localStore, "feishu_")
                /\ tokenCall' = Invalidated("cleared")
           ELSE UNCHANGED <<syncCache, memCache, accessToken, tokenExpiry,
                            localStore, tokenCall>>
    /\ UNCHANGED <<auxVars, now, remote, storeVars, procVars>>

NextToken ==
    \/ Tick
    \/ CallGetAccessToken
    \/ TokenRejected
    \/ HandleClearCache

SpecToken == InitLocal /\ [][NextToken]_vars

\* ---------------------------------------------- storage.js: cache tier
\* setCache: the entry is put into the in-memory object before the write is
\* awaited; the whole object is then written under the CACHE key.
CacheEntry(data, t, duration) ==
    [present |-> TRUE, data |-> data, timestamp |-> t, duration |-> duration]

SetCache ==
    /\ \E k \in CacheKeys, d \in CacheData, writeOk \in BOOLEAN :
        LET cache == [memCache EXCEPT ![k] = CacheEntry(d, now, 0)] IN
        /\ memCache' = cache
        /\ syncCache' = IF writeOk THEN cache ELSE syncCache
        /\ cacheRet' = [NoCacheCall EXCEPT !.op = "setCache", !.key = k,
                                           !.ok = writeOk]
    /\ UNCHANGED <<auxVars, now, remote, tokenVars, tokenCall, storeVars, localStore, procVars>>

\* StorageManager.getCache(key): what it returns and the in-memory object
\* it leaves (lines 224-237). It touches nothing else.
GetCacheResult(cache, k, t) ==
    IF ~cache[k].present
    THEN [value |-> NoData, expired |-> FALSE, cache |-> cache]
    ELSE IF IsExpired(cache[k].timestamp, CacheDuration, t)
    THEN [value |-> NoData, expired |-> TRUE,
          cache |-> [cache EXCEPT ![k] = NoEntry]]
    ELSE [value |-> cache[k].data, expired |-> FALSE, cache |-> cache]

GetCache ==
    /\ \E k \in CacheKeys :
        LET r == GetCacheResult(memCache, k, now) IN
        /\ memCache' = r.cache
        /\ cacheRet' = [NoCacheCall EXCEPT !.op = "getCache", !.key = k,
                                           !.value = r.value, !.expired = r.expired]
    /\ UNCHANGED <<auxVars, now, remote, tokenVars, tokenCall, storeVars, syncCache,
                   localStore, procVars>>

\* loadCache (run by init): the in-memory object becomes the stored cache
\* without its expired entries; the stored cache is not rewritten.
LoadCache ==
    /\ memCache' = [k \in CacheKeys |->
                      IF syncCache[k].present
                         /\ ~IsExpired(syncCache[k].timestamp, CacheDuration, now)
                      THEN syncCache[k] ELSE NoEntry]
    /\ cacheRet' = [NoCacheCall EXCEPT !.op = "loadCache"]
    /\ UNCHANGED <<auxVars, now, remote, tokenVars, tokenCall, storeVars, syncCache,
                   localStore, procVars>>

\* ------------------------------------------- part_001: CacheUtils
\* CacheUtils.setCache(key, data, duration = CONFIG.CACHE_DURATION)
CacheUtilsSet ==
    /\ \E k \in CacheKeys, d \in CacheData, writeOk \in BOOLEAN :
        /\ localStore' = IF writeOk
                         THEN [localStore EXCEPT ![k] = CacheEntry(d, now, CacheDuration)]
                         ELSE localStore
        /\ cacheRet' = [NoCacheCall EXCEPT !.op = "cacheUtilsSet", !.key = k,
                                           !.ok = writeOk]
    /\ UNCHANGED <<auxVars, now, remote, tokenVars, tokenCall, storeVars, syncCache,
                   memCache, procVars>>

\* CacheUtils.getCache(key): what it returns and the localStorage it leaves
CacheUtilsGetResult(store, k, t) ==
    IF ~store[k].present
    THEN [value |-> NoData, expired |-> FALSE, store |-> store]
    ELSE IF IsExpired(store[k].timestamp, store[k].duration, t)
    THEN [value |-> NoData, expired |-> TRUE,
          store |-> [store EXCEPT ![k] = NoEntry]]
    ELSE [value |-> store[k].data, expired |-> FALSE, store |-> store]

CacheUtilsGet ==
    /\ \E k \in CacheKeys :
        LET r == CacheUtilsGetResult(localStore, k, now) IN
        /\ localStore' = r.store
        /\ cacheRet' = [NoCacheCall EXCEPT !.op = "cacheUtilsGet", !.key = k,
                                           !.value = r.value, !.expired = r.expired]
    /\ UNCHANGED <<auxVars, now, remote, tokenVars, tokenCall, storeVars, syncCache,
                   memCache, procVars>>

\* StorageManager's cache tier
NextCache ==
    \/ Tick
    \/ SetCache
    \/ GetCache
    \/ LoadCache

SpecCache == InitLocal /\ [][NextCache]_vars

\* CacheUtils over localStorage
NextCacheUtils ==
    \/ Tick
    \/ CacheUtilsSet
    \/ CacheUtilsGet

SpecCacheUtils == InitLocal /\ [][NextCacheUtils]_vars

\* -------------------------------------------- storage.js: snapshot tier
\* The record sets handed to savePermanentPrompts: what processPromptData
\* yields for the tables, and the same with the first page fetched twice.
SnapshotInputs ==
    { ProcessPromptData(t) : t \in Tables }
      \cup { ProcessPromptData(t) \o ProcessPromptData(t) : t \in {Table("mixed", 1)} }

\* storageManager.savePermanentPrompts(prompts)
SavePermanentPrompts ==
    /\ \E prompts \in SnapshotInputs, writeOk \in BOOLEAN :
        /\ permanent' = IF writeOk THEN SnapshotOf(prompts, now) ELSE permanent
        /\ cacheRet' = [NoCacheCall EXCEPT !.op = "savePermanent", !.ok = writeOk,
                                           !.input = prompts, !.time = now]
    /\ UNCHANGED <<auxVars, now, remote, tokenVars, tokenCall, recent, lastRefreshTime,
                   syncCache, memCache, localStore, procVars>>

\* storageManager.getPermanentPrompts()
LoadPermanentPrompts ==
    /\ LET r == GetPermanentPrompts(permanent) IN
        cacheRet' = [NoCacheCall EXCEPT
                        !.op = "getPermanent",
                        !.followsSave = (cacheRet.op = "savePermanent" /\ cacheRet.ok),
                        !.input = cacheRet.input, !.time = cacheRet.time,
                        !.hasPrompts = r.hasPrompts, !.prompts = r.prompts,
                        !.lastUpdated = r.lastUpdated]
    /\ UNCHANGED <<auxVars, now, remote, tokenVars, tokenCall, storeVars, syncCache,
                   memCache, localStore, procVars>>

\* handleClearPermanentPrompts: storageManager.clearPermanentPrompts()
\* (cacheRet.hasPrompts: whether a snapshot was stored when it was called)
ClearPermanentPrompts ==
    /\ \E removeOk \in BOOLEAN :
        /\ permanent' = IF removeOk THEN NoSnapshot ELSE permanent
        /\ cacheRet' = [NoCacheCall EXCEPT !.op = "clearPermanent", !.ok = removeOk,
                                           !.hasPrompts = permanent.present]
    /\ UNCHANGED <<auxVars, now, remote, tokenVars, tokenCall, recent, lastRefreshTime,
                   syncCache, memCache, localStore, procVars>>

\* (variant: the report is made up from nothing stored)
InfoWithoutLookup(stored, readOk) ==
    [hasPermanentData |-> TRUE, count |-> 1, lastUpdated |-> 0]

\* getPermanentPromptsInfo (storage.js 329-355): no data, or a failing
\* localGet, gives {hasPermanentData: false, count: 0, lastUpdated: null}.
PermanentPromptsInfo(stored, readOk) ==
    IF readOk /\ stored.present
    THEN [hasPermanentData |-> TRUE, count |-> OrDefault(stored.count, 0),
          lastUpdated |-> stored.lastUpdated]
    ELSE [hasPermanentData |-> FALSE, count |-> 0, lastUpdated |-> NoTime]

\* handleGetPermanentPromptsInfo
GetPermanentPromptsInfo ==
    /\ \E readOk \in BOOLEAN :
        LET info == PermanentPromptsInfo(permanent, readOk) IN
        cacheRet' = [NoCacheCall EXCEPT
                        !.op = "getPermanentInfo", !.ok = readOk,
                        !.followsClear = (cacheRet.op = "clearPermanent" /\ cacheRet.ok),
                        !.hasPrompts = info.hasPermanentData,
                        !.count = info.count, !.lastUpdated = info.lastUpdated]
    /\ UNCHANGED <<auxVars, now, remote, tokenVars, tokenCall, storeVars, syncCache,
                   memCache, localStore, procVars>>

NextSnapshot ==
    \/ Tick
    \/ SavePermanentPrompts
    \/ LoadPermanentPrompts
    \/ ClearPermanentPrompts

SpecSnapshot == InitLocal /\ [][NextSnapshot]_vars

\* ------------------------------------- background.js: auto-refresh timer
\* setInterval(callback, minutes * 60 * 1000): the timer it creates
Timer(id, interval) == [id |-> id, interval |-> interval]

\* The id setInterval returns: one that no live timer has
NewTimerId(live) == CHOOSE i \in 1..MaxTimers : \A t \in live : t.id # i

\* (variant: the handle is dropped without clearInterval)
StopForgetsTimer(handle, live) == [handle |-> NoTimer, timers |-> live]

\* stopAutoRefresh (lines 625-631): the handle and the live timers it leaves
StopAutoRefresh(handle, live) ==
    IF handle # NoTimer
    THEN [handle |-> NoTimer, timers |-> {t \in live : t.id # handle}]
    ELSE [handle |-> handle, timers |-> live]

\* (variant: the timer is created without stopping the one before it)
StartWithoutStop(handle, live, st, interval) ==
    IF st.enabled # "false"
    THEN [handle |-> NewTimerId(live),
          timers |-> live \cup {Timer(NewTimerId(live),
                        OrDefault(interval, OrDefault(st.interval, DefaultInterval)))}]
    ELSE [handle |-> handle, timers |-> live]

\* startAutoRefresh(interval) (lines 599-620) under the cached settings st.
\* It has no await: it runs from stopAutoRefresh to setInterval in one piece.
StartAutoRefresh(handle, live, st, interval) ==
    LET stopped == StopAutoRefresh(handle, live)
        refreshInterval == OrDefault(interval, OrDefault(st.interval, DefaultInterval))
        id == NewTimerId(stopped.timers)
    IN  IF st.enabled # "false"
        THEN [handle |-> id,
              timers |-> stopped.timers \cup {Timer(id, refreshInterval)}]
        ELSE stopped

\* requested: the enabled flag of the last request that carried an
\* auto-refresh setting ("none": no request carried one yet)
TimerCall(op, enabled, success) ==
    [seq |-> 1 - timerCall.seq, op |-> op, enabled |-> enabled, success |-> success,
     requested |-> timerCall.requested]

\* setupMessageListeners() adds a new closure to runtime.onMessage and
\* startKeepAlive() overwrites keepAliveInterval with a new setInterval,
\* neither looking at what is registered already.
Register(held) ==
    [listeners |-> Min(held.listeners + 1, 2),
     keepAlives |-> Min(held.keepAlives + 1, 2)]

\* initialize() (lines 16-44): storageManager.init() loads the stored
\* settings the first time, then the listener, the keep-alive interval and
\* startAutoRefresh().
Initialize ==
    /\ Cardinality(timers) < MaxTimers
    /\ \E st \in (IF settings.initialized THEN {settings} ELSE SettingsValues) :
        LET r == StartAutoRefresh(autoRefreshInterval, timers, st, 0)
        IN  /\ settings' = st
            /\ autoRefreshInterval' = r.handle
            /\ timers' = r.timers
    /\ timerCall' = TimerCall("initialize", FALSE, TRUE)
    /\ registered' = Register(registered)
    /\ UNCHANGED <<now, remote, tokenVars, tokenCall, storeVars, cacheVars, procVars,
                   config, apiCall, adders, reply, normalized, stateCache, feishuConfig,
                   contentVars>>

\* handleSaveSettings({settings, feishuConfig}) (lines 250-280):
\* saveSettings if settings were sent, saveFeishuConfig, then
\* restartAutoRefresh(); a failing write ends it before the restart.
\* given = FALSE: the request carried no settings (what is cached stays).
SaveSettingsOutcomes == {"ok", "settings write fails", "config write fails"}

\* userConfigs: the configurations the request may carry (NoConfig: it
\* carries none); saveFeishuConfig caches the one sent after writing it,
\* then initConfig is handed it. newSettings: the settings it may carry.
HandleSaveSettingsWith(userConfigs, newSettings) ==
    /\ Cardinality(timers) < MaxTimers
    /\ \E outcome \in SaveSettingsOutcomes, given \in BOOLEAN,
          userConfig \in userConfigs \cup {NoConfig} :
       \E sent \in (IF given /\ outcome # "settings write fails"
                    THEN newSettings ELSE {settings}) :
        LET saved == [sent EXCEPT !.initialized = settings.initialized]
            r == StartAutoRefresh(autoRefreshInterval, timers, saved, 0)
            asked == IF given /\ outcome # "settings write fails"
                     THEN sent.enabled ELSE timerCall.requested
            written == outcome = "ok" /\ userConfig # NoConfig
        IN  /\ outcome = "settings write fails" => given
            /\ outcome = "config write fails" => userConfig # NoConfig
            /\ feishuConfig' = IF written THEN userConfig ELSE feishuConfig
            /\ config' = IF written THEN InitConfig(config, userConfig) ELSE config
            /\ settings' = saved
            /\ IF outcome # "ok"
               THEN /\ UNCHANGED <<autoRefreshInterval, timers>>
                    /\ timerCall' = [TimerCall("saveSettings", FALSE, FALSE)
                                        EXCEPT !.requested = asked]
               ELSE /\ autoRefreshInterval' = r.handle
                    /\ timers' = r.timers
                    /\ timerCall' = [TimerCall("saveSettings", FALSE, TRUE)
                                        EXCEPT !.requested = asked]
    /\ UNCHANGED <<now, remote, tokenVars, tokenCall, storeVars, cacheVars, procVars,
                   apiCall, adders, reply, normalized, stateCache, registered,
                   contentVars>>

\* A SAVE_SETTINGS request that carries the configuration already saved,
\* or none.
HandleSaveSettings == HandleSaveSettingsWith({feishuConfig}, SettingsValues)

\* A SAVE_SETTINGS request with any configuration, and the settings
\* already saved or none
HandleSaveConfig == HandleSaveSettingsWith(SentConfigs, {settings})

\* handleSetAutoRefreshSettings({enabled, interval}) (lines 382-403)
HandleSetAutoRefreshSettings ==
    /\ Cardinality(timers) < MaxTimers
    /\ \E enabled \in BOOLEAN, interval \in IntervalInputs :
        LET r == IF enabled
                 THEN StartAutoRefresh(autoRefreshInterval, timers, settings, interval)
                 ELSE StopAutoRefresh(autoRefreshInterval, timers)
        IN  /\ autoRefreshInterval' = r.handle
            /\ timers' = r.timers
            /\ timerCall' = [TimerCall("setAutoRefresh", enabled, TRUE) EXCEPT
                                !.requested = IF enabled THEN "true" ELSE "false"]
    /\ UNCHANGED <<now, remote, tokenVars, tokenCall, storeVars, cacheVars, procVars,
                   config, apiCall, settings, adders, reply, normalized, sideVars>>

\* chrome.runtime.onSuspend (lines 694-702): stopAutoRefresh()
Suspend ==
    /\ LET r == StopAutoRefresh(autoRefreshInterval, timers) IN
        /\ autoRefreshInterval' = r.handle
        /\ timers' = r.timers
    /\ timerCall' = TimerCall("suspend", FALSE, TRUE)
    /\ UNCHANGED <<now, remote, tokenVars, tokenCall, storeVars, cacheVars, procVars,
                   config, apiCall, settings, adders, reply, normalized, sideVars>>

\* A live timer fires: its callback (lines 607-613) awaits
\* handleManualRefresh(). (One timer-driven refresh runs at a time here.)
TimerFires ==
    /\ timers # {}
    /\ ManualRefreshStart("timer")

NextTimer ==
    \/ Initialize
    \/ HandleSaveSettings
    \/ HandleSetAutoRefreshSettings
    \/ Suspend
    \/ TimerFires
    \/ PageRequest("timer")
    \/ SavePermanent("timer")
    \/ StampRefresh("timer")

SpecTimer == InitLocal /\ [][NextTimer]_vars

\* ------------------------------------------- storage.js: recent list
\* The prompts handed to addRecentPrompt
RecentPrompts == { PromptOf(RawItem("mixed", k)) : k \in {1, 2, 4} }

\* addRecentPrompt, line 265: const recent = await this.getRecentPrompts();
\* getRecentPrompts returns [] when its storageGet fails.
AddRecentRead(c) ==
    /\ adders[c].pc = "idle"
    /\ \E prompt \in RecentPrompts, readOk \in BOOLEAN :
        adders' = [adders EXCEPT ![c] =
            [pc |-> "read", prompt |-> prompt,
             read |-> IF readOk THEN recent ELSE <<>>,
             readOk |-> readOk, done |-> FALSE]]
    /\ UNCHANGED <<now, remote, tokenVars, tokenCall, storeVars, cacheVars, procVars,
                   config, apiCall, timerVars, reply, normalized, sideVars>>

\* addRecentPrompt, lines 266-282: filter, unshift, slice on the list read
\* before, then await storageSet; a failing storageSet is rethrown.
AddRecentWrite(c) ==
    /\ adders[c].pc = "read"
    /\ \E writeOk \in BOOLEAN :
        /\ recent' = IF writeOk
                     THEN AddRecent(adders[c].read, adders[c].prompt, now)
                     ELSE recent
        /\ adders' = [adders EXCEPT ![c].pc = "idle", ![c].read = <<>>,
                                    ![c].done = writeOk]
    /\ UNCHANGED <<now, remote, tokenVars, tokenCall, permanent, lastRefreshTime,
                   cacheVars, procVars, config, apiCall, timerVars, reply, normalized,
                   sideVars>>

NextRecent ==
    \/ \E c \in Adders : AddRecentRead(c)
    \/ \E c \in Adders : AddRecentWrite(c)

SpecRecent == InitLocal /\ [][NextRecent]_vars

\* ------------------------------------------ background.js: dispatcher
\* The actions of the switch in handleIncomingMessage
MessageTypes ==
    {"SEARCH_PROMPTS", "CHECK_CONNECTION", "SAVE_SETTINGS", "MANUAL_REFRESH",
     "CLEAR_CACHE", "GET_PERMANENT_PROMPTS_INFO", "CLEAR_PERMANENT_PROMPTS",
     "SET_AUTO_REFRESH_SETTINGS", "CAPTURE_PROMPT", "COPY_TO_CLIPBOARD",
     "SHOW_SELECTOR", "TOGGLE_POPUP"}

\* The messages received: one per action, the createPrompt message of the
\* popup and the content script, one with some other action the switch
\* does not know, and a request that is no object (null).
Requests == MessageTypes \cup {"createPrompt", "UNKNOWN", "NULL_REQUEST"}

\* An object with a boolean success field
Response(success, error, code) ==
    [thrown |-> FALSE, msg |-> "none", hasSuccess |-> TRUE, success |-> success,
     error |-> error, code |-> code]

\* A thrown error with message class msg
Thrown(msg) ==
    [thrown |-> TRUE, msg |-> msg, hasSuccess |-> FALSE, success |-> FALSE,
     error |-> "none", code |-> "none"]

\* The handlers whose callee catches the failure itself and returns a
\* value: testConnection (catch, connected: false), getPermanentPromptsInfo
\* (catch, hasPermanentData: false), startAutoRefresh (catch, log only).
SwallowsFailure(action) ==
    action \in {"CHECK_CONNECTION", "GET_PERMANENT_PROMPTS_INFO",
                "SET_AUTO_REFRESH_SETTINGS"}

\* A handle* function: try { ... return {success: true, ...} }
\* catch (error) { return {success: false, error: error.message, ...} }.
\* (handleSearchPrompts returns the {success: false, error} of searchPrompts
\* itself when the remote search failed.)
HandlerResponse(action, fails, msg) ==
    IF fails /\ ~SwallowsFailure(action)
    THEN Response(FALSE, msg, "none")
    ELSE Response(TRUE, "none", "none")

\* handleIncomingMessage: the destructuring of the request, which throws a
\* TypeError for null, outside any try; then the switch with its default.
HandleIncomingMessageResult(request, fails, msg) ==
    IF request = "NULL_REQUEST" THEN Thrown("plain")
    ELSE IF request \in MessageTypes THEN HandlerResponse(request, fails, msg)
    ELSE Response(FALSE, "unknown message type", "UNKNOWN_ERROR")

\* (variant: the listener has no catch)
ListenerReplyWithoutCatch(r) ==
    [rejected |-> r.thrown, hasSuccess |-> r.hasSuccess, success |-> r.success,
     error |-> r.error, code |-> r.code]

\* The listener (lines 50-62): .then(sendResponse), .catch(error =>
\* sendResponse({success: false, error: ..., code: errorInfo.code}))
ListenerReply(r) ==
    IF r.thrown
    THEN [rejected |-> FALSE, hasSuccess |-> TRUE, success |-> FALSE,
          error |-> r.msg, code |-> HandleErrorCode("UNKNOWN_ERROR", r.msg)]
    ELSE [rejected |-> FALSE, hasSuccess |-> r.hasSuccess, success |-> r.success,
          error |-> r.error, code |-> r.code]

\* One message goes through the listener.
HandleIncomingMessage ==
    /\ \E request \in Requests, fails \in BOOLEAN, msg \in MsgClasses \cup {"none"} :
        /\ fails => request \in MessageTypes
        /\ (msg # "none") = fails
        /\ LET r == ListenerReply(HandleIncomingMessageResult(request, fails, msg))
           IN  reply' = [seq |-> 1 - reply.seq, request |-> request,
                         failed |-> fails, rejected |-> r.rejected,
                         hasSuccess |-> r.hasSuccess, success |-> r.success,
                         error |-> r.error, code |-> r.code]
    /\ UNCHANGED <<now, remote, tokenVars, tokenCall, storeVars, cacheVars, procVars,
                   config, apiCall, timerVars, adders, normalized, sideVars>>

NextDispatch == HandleIncomingMessage

SpecDispatch == InitLocal /\ [][NextDispatch]_vars

\* ------------------------------------------- feishu-api.js: apiRequest
\* What the token endpoint can answer to the credentials it is sent: no
\* token when app_id or app_secret is empty.
TokenEndpoint(cfg) ==
    IF cfg.appId /\ cfg.appSecret THEN TokenOutcomes
    ELSE { o \in TokenOutcomes : o.kind # "ok" }

\* What the remote can answer to a request, data.msg of any word class.
ApiOutcomes ==
    [kind : {"ok", "token_invalid", "rate_limit", "other"}, msg : MsgClasses]
      \cup [kind : {"network"}, msg : {"network"}]

\* A caller awaits apiRequest(endpoint, options): getAccessToken (outside
\* the try), then one fetch of the url, then the classification of the
\* answer; every error goes through ErrorHandler.handleError.
CallApiRequest ==
    /\ \E tout \in TokenEndpoint(config), out \in ApiOutcomes :
        LET tk == GetAccessToken(accessToken, tokenExpiry, now, tout) IN
        /\ ~tk.requested => tout = CHOOSE o \in TokenEndpoint(config) : TRUE
        /\ ~tk.ok => out = CHOOSE o \in ApiOutcomes : TRUE
        /\ IF ~tk.ok
           THEN /\ accessToken' = tk.accessToken
                /\ tokenExpiry' = tk.tokenExpiry
                /\ apiCall' = [seq |-> 1 - apiCall.seq, kind |-> "token",
                               msg |-> tout.msg, code |-> tk.code,
                               tokenRequests |-> 1, requests |-> 0,
                               used |-> config]
           ELSE /\ accessToken' = IF InvalidatesToken(out) THEN NoToken
                                  ELSE tk.accessToken
                /\ tokenExpiry' = IF InvalidatesToken(out) THEN 0 ELSE tk.tokenExpiry
                /\ apiCall' = [seq |-> 1 - apiCall.seq, kind |-> out.kind,
                               msg |-> out.msg, code |-> ApiErrorCode(out),
                               tokenRequests |-> IF tk.requested THEN 1 ELSE 0,
                               requests |-> 1, used |-> config]
    /\ UNCHANGED <<now, remote, tokenCall, storeVars, cacheVars, procVars,
                   config, timerVars, adders, reply, normalized, sideVars>>

\* The service with any configuration initConfig can have produced.
InitApi ==
    /\ InitCommon
    /\ permanent = NoSnapshot
    /\ remote = Table("mixed", MaxRemote)
    /\ config \in Configs
    /\ feishuConfig = config
    /\ settings = DefaultSettings
    /\ autoRefreshInterval = NoTimer
    /\ timers = {}

NextApi ==
    \/ Tick
    \/ CallApiRequest

SpecApi == InitApi /\ [][NextApi]_vars

\* ------------------------------------- feishu-api.js: normalizer calls
\* Raw items as the remote may send them: without a prompt field, with an
\* empty one, with blanks only, with text, with text after a blank; with
\* {{name}} placeholders in the text and no variables field, a variables
\* array, a comma-separated variables string.
NormalizerItems ==
    { [record_id |-> 3, fields |-> [category |-> "x"]] }
      \cup { [record_id |-> 1 + Len(text),
              fields |-> [prompt |-> text, category |-> "x"]] :
              text \in {<<>>, <<" ">>} }
      \cup { [record_id |-> 4 + Len(text),
              fields |-> [prompt |-> text, category |-> ""]] :
              text \in {<<"a">>, <<" ", "b">>} }
      \cup { [record_id |-> 7,
              fields |-> [prompt |-> <<"{{n}}", "a", "{{n}}", "{{m}}">>,
                          category |-> "x"]] }
      \cup { [record_id |-> 7 + Len(given.items),
              fields |-> [prompt |-> <<"{{n}}", "a", "{{n}}", "{{m}}">>,
                          category |-> "x", variables |-> given]] :
              given \in {[kind |-> "array", items |-> <<"n", "m">>],
                        [kind |-> "csv", items |-> <<" n ", " ", "n", "k">>]} }

NormalizerInputs ==
    UNION { [1..n -> NormalizerItems] : n \in 0..MaxItems }

\* A caller runs processPromptData(items).
CallProcessPromptData ==
    /\ \E items \in NormalizerInputs :
        normalized' = [called |-> TRUE, input |-> items,
                       output |-> ProcessPromptData(items)]
    /\ UNCHANGED <<now, remote, tokenVars, tokenCall, storeVars, cacheVars, procVars,
                   config, apiCall, timerVars, adders, reply, sideVars>>

NextNormalizer == CallProcessPromptData

SpecNormalizer == InitLocal /\ [][NextNormalizer]_vars

\* ------------------------------------ clearing the snapshot, in context
\* A worker in use: initialize() has loaded settings and started the timer,
\* a token is cached, a cache entry is set and a prompt is in the recent
\* list; a snapshot may be stored.
InitInUse ==
    /\ now = 0
    /\ remote = Table("mixed", MaxRemote)
    /\ accessToken = 1
    /\ tokenExpiry = 0
    /\ tokenCall = NoTokenCall
    /\ permanent \in {NoSnapshot} \cup {SnapshotOf(ProcessPromptData(remote), 0)}
    /\ recent \in {AddRecent(<<>>, prompt, 0) : prompt \in RecentPrompts}
    /\ lastRefreshTime = IF permanent.present THEN 0 ELSE NoTime
    /\ \E d \in CacheData :
          /\ memCache = [[c \in CacheKeys |-> NoEntry] EXCEPT
                            !["prompts_list"] = CacheEntry(d, 0, 0)]
          /\ syncCache = memCache
    /\ localStore = [k \in CacheKeys |-> NoEntry]
    /\ cacheRet = NoCacheCall
    /\ fetch = [p \in Procs |-> IdleFetch]
    /\ result = [p \in Procs |-> NoResult]
    /\ searchRes = NoSearch
    /\ config = FullConfig
    /\ feishuConfig = config
    /\ apiCall = NoApiCall
    /\ settings \in {st \in SettingsValues : st.enabled = "true"}
    /\ autoRefreshInterval = StartAutoRefresh(NoTimer, {}, settings, 0).handle
    /\ timers = StartAutoRefresh(NoTimer, {}, settings, 0).timers
    /\ timerCall = NoTimerCall
    /\ adders = [c \in Adders |-> IdleAdder]
    /\ reply = NoReply
    /\ stateCache = [k \in CacheKeys |-> NoEntry]
    /\ registered = NothingRegistered
    /\ content = InactiveContent
    /\ searches = [s \in Searchers |-> IdleSearch]
    /\ clipboard = InitClipboard
    /\ checks = [k \in Checkers |-> IdleCheck]
    /\ normalized = NoNormalized

NextClear ==
    \/ Tick
    \/ SavePermanentPrompts
    \/ ClearPermanentPrompts
    \/ GetPermanentPromptsInfo

SpecClear == InitInUse /\ [][NextClear]_vars

\* --------------------------------------------- invalidation, in context
\* Token calls and invalidations, CacheUtils.setCache having stored some
\* entries (of both kinds of key) before.
InitInvalidate ==
    /\ now = 0
    /\ remote = Table("mixed", MaxRemote)
    /\ accessToken = NoToken
    /\ tokenExpiry = 0
    /\ tokenCall = NoTokenCall
    /\ permanent = NoSnapshot
    /\ recent = <<>>
    /\ lastRefreshTime = NoTime
    /\ syncCache = [k \in CacheKeys |-> NoEntry]
    /\ memCache = [k \in CacheKeys |-> NoEntry]
    /\ localStore \in [CacheKeys -> {NoEntry} \cup
                          {CacheEntry(d, 0, CacheDuration) : d \in CacheData}]
    /\ cacheRet = NoCacheCall
    /\ fetch = [p \in Procs |-> IdleFetch]
    /\ result = [p \in Procs |-> NoResult]
    /\ searchRes = NoSearch
    /\ config = FullConfig
    /\ feishuConfig = config
    /\ apiCall = NoApiCall
    /\ settings = DefaultSettings
    /\ autoRefreshInterval = NoTimer
    /\ timers = {}
    /\ timerCall = NoTimerCall
    /\ adders = [c \in Adders |-> IdleAdder]
    /\ reply = NoReply
    /\ stateCache = [k \in CacheKeys |-> NoEntry]
    /\ registered = NothingRegistered
    /\ content = InactiveContent
    /\ searches = [s \in Searchers |-> IdleSearch]
    /\ clipboard = InitClipboard
    /\ checks = [k \in Checkers |-> IdleCheck]
    /\ normalized = NoNormalized

NextInvalidate ==
    \/ Tick
    \/ CallGetAccessToken
    \/ TokenRejected
    \/ HandleClearCache

SpecInvalidate == InitInvalidate /\ [][NextInvalidate]_vars

\* -------------------------------------------------- popup: state.cache
\* setCachedData(key, data): state.cache.set(key, {data, timestamp: Date.now()})
SetCachedData ==
    /\ \E k \in CacheKeys, d \in CacheData :
        /\ stateCache' = [stateCache EXCEPT ![k] = CacheEntry(d, now, 0)]
        /\ cacheRet' = [NoCacheCall EXCEPT !.op = "setCachedData", !.key = k,
                                           !.ok = TRUE, !.time = now]
    /\ UNCHANGED <<now, remote, tokenVars, tokenCall, storeVars, syncCache, memCache,
                   localStore, procVars, config, apiCall, timerVars, adders, reply,
                   feishuConfig, registered, contentVars, normalized>>

\* getCachedData(key): the data if an entry is there and
\* Date.now() - cached.timestamp < CONFIG.CACHE_DURATION, else null.
GetCachedDataResult(cache, k, t) ==
    IF cache[k].present /\ t - cache[k].timestamp < CacheDuration
    THEN cache[k].data
    ELSE NoData

\* A caller (loadPrompts, loadStats) reads the popup's cache. The entry
\* stays in the Map whatever its age.
GetCachedData ==
    /\ \E k \in CacheKeys :
        cacheRet' = [NoCacheCall EXCEPT
                        !.op = "getCachedData", !.key = k, !.time = now,
                        !.ok = stateCache[k].present,
                        !.value = GetCachedDataResult(stateCache, k, now)]
    /\ UNCHANGED <<now, remote, tokenVars, tokenCall, storeVars, syncCache, memCache,
                   localStore, procVars, auxVars>>

\* handleRefresh, line 1602: state.cache.clear()
ClearStateCache ==
    /\ stateCache' = [k \in CacheKeys |-> NoEntry]
    /\ cacheRet' = [NoCacheCall EXCEPT !.op = "clearStateCache", !.ok = TRUE,
                                       !.time = now]
    /\ UNCHANGED <<now, remote, tokenVars, tokenCall, storeVars, syncCache, memCache,
                   localStore, procVars, config, apiCall, timerVars, adders, reply,
                   feishuConfig, registered, contentVars, normalized>>

NextPopup ==
    \/ Tick
    \/ SetCachedData
    \/ GetCachedData
    \/ ClearStateCache

SpecPopup == InitLocal /\ [][NextPopup]_vars

\* ------------------------------------------- the worker's periodic work
\* startKeepAlive (lines 575-583): every 20 s the interval's callback calls
\* chrome.runtime.getPlatformInfo with an empty callback. It reads and
\* writes no cache (timerCall keeps that it ran).
KeepAlive ==
    /\ timerCall' = TimerCall("keepAlive", FALSE, TRUE)
    /\ UNCHANGED <<now, remote, tokenVars, tokenCall, storeVars, cacheVars, procVars,
                   config, apiCall, settings, autoRefreshInterval, timers, adders,
                   reply, normalized, sideVars>>

\* StorageManager's cache while the worker is kept alive.
NextSweep ==
    \/ Tick
    \/ SetCache
    \/ GetCache
    \/ LoadCache
    \/ KeepAlive

\* The clock advances and the keep-alive interval keeps firing; cache
\* calls happen when a caller makes them.
SpecSweep ==
    /\ InitLocal
    /\ [][NextSweep]_vars
    /\ WF_vars(Tick)
    /\ WF_vars(KeepAlive)

\* ------------------------------------------ saving the configuration
\* Requests of the worker between SAVE_SETTINGS requests.
NextConfig ==
    \/ HandleSaveConfig
    \/ CallApiRequest

SpecConfig == InitLocal /\ [][NextConfig]_vars

\* ------------------------------------------- content script: selector
\* The queries typed after the trigger sequence: none, "a", "ab".
TypedQueries == {<<>>, <<"a">>, <<"a", "b">>}
SelectorKeys == {"Escape", "Enter", "ArrowUp", "ArrowDown", "Tab"}

\* What the background answers to a search that succeeds: the items whose
\* title contains the query (environment).
SelectorItems == <<[id |-> 1, title |-> <<"a">>], [id |-> 2, title |-> <<"a", "b">>]>>
ItemsFor(query) == SelectSeq(SelectorItems, LAMBDA it : Includes(it.title, query))

\* updateSelector: without a selector nothing; else the result items are
\* rendered anew from state.results.
UpdateSelector(st) ==
    IF ~st.selector THEN st ELSE [st EXCEPT !.rendered = Len(st.results)]

\* showLoadingState: the result list is replaced by the loading line
ShowLoadingState(st) ==
    IF ~st.selector THEN st ELSE [st EXCEPT !.rendered = 0]

\* hideSelector: the element is removed, the state reset, the timer
\* cleared if state.searchTimeout holds one.
HideSelector(st) ==
    [st EXCEPT !.selector = FALSE, !.rendered = 0, !.isActive = FALSE,
               !.searchQuery = <<>>, !.results = <<>>, !.selectedIndex = -1,
               !.searchTimeout = IF st.searchTimeout.held THEN NoTimeout
                                 ELSE st.searchTimeout,
               !.fresh = "none"]

\* showSelector: hides a selector that is there, creates one, renders
\* state.results as they are, sets isActive.
ShowSelector(st) ==
    LET hidden == IF st.selector THEN HideSelector(st) ELSE st
    IN  [UpdateSelector([hidden EXCEPT !.selector = TRUE]) EXCEPT !.isActive = TRUE]

\* debounceSearch: the timer held is cleared, a new one is set
DebounceSearch(st, query) ==
    [st EXCEPT !.searchTimeout = [held |-> TRUE, pending |-> TRUE, query |-> query]]

\* handleInput on an editable element: a trigger sequence is found before
\* the cursor, with `query` after it, or none is.
HandleInput ==
    /\ \E found \in BOOLEAN, query \in TypedQueries :
        /\ found \/ content.isActive
        /\ content' =
            IF found
            THEN LET shown == IF ~content.isActive THEN ShowSelector(content)
                              ELSE content
                 IN  IF query # shown.searchQuery
                     THEN DebounceSearch([shown EXCEPT !.searchQuery = query], query)
                     ELSE shown
            ELSE HideSelector(content)
    /\ UNCHANGED <<now, remote, tokenVars, tokenCall, storeVars, cacheVars, procVars,
                   config, apiCall, timerVars, adders, reply, normalized,
                   stateCache, feishuConfig, registered, searches, clipboard, checks>>

\* The debounce timer fires: performSearch(query) up to its return or its
\* await. A short query empties state.results and leaves selectedIndex;
\* any other is sent to the background.
SearchTimerFires ==
    /\ content.searchTimeout.pending
    /\ LET query == content.searchTimeout.query
           fired == [content EXCEPT !.searchTimeout.pending = FALSE]
           older == [s \in Searchers |-> [searches[s] EXCEPT !.latest = FALSE]]
       IN  IF Len(query) < MinSearchLength
           THEN /\ content' = UpdateSelector([fired EXCEPT !.results = <<>>,
                                                           !.fresh = "none"])
                /\ UNCHANGED searches
           ELSE \E s \in Searchers :
                /\ searches[s].pc = "idle"
                /\ \A r \in Searchers : r < s => searches[r].pc # "idle"
                /\ content' = ShowLoadingState(
                       [fired EXCEPT !.fresh = IF fired.fresh = "latest"
                                               THEN "stale" ELSE fired.fresh])
                /\ searches' = [older EXCEPT ![s] =
                       [pc |-> "sent", query |-> query, latest |-> TRUE]]
    /\ UNCHANGED <<now, remote, tokenVars, tokenCall, storeVars, cacheVars, procVars,
                   config, apiCall, timerVars, adders, reply, normalized,
                   stateCache, feishuConfig, registered, clipboard, checks>>

\* performSearch after its await: the response is a success with items, a
\* failure, or sendMessage rejected.
SearchResponse(s) ==
    /\ searches[s].pc = "sent"
    /\ \E outcome \in {"ok", "failed", "threw"} :
        LET items == IF outcome = "ok" THEN ItemsFor(searches[s].query) ELSE <<>>
        IN  content' = UpdateSelector(
                [content EXCEPT !.results = items,
                                !.selectedIndex = IF Len(items) > 0 THEN 0 ELSE -1,
                                !.fresh = IF searches[s].latest THEN "latest"
                                          ELSE "stale"])
    /\ searches' = [searches EXCEPT ![s] = IdleSearch]
    /\ UNCHANGED <<now, remote, tokenVars, tokenCall, storeVars, cacheVars, procVars,
                   config, apiCall, timerVars, adders, reply, normalized,
                   stateCache, feishuConfig, registered, clipboard, checks>>

\* handleKeyDown while the selector is active. Enter and Tab on a valid
\* selection: selectResult, which inserts the prompt and hides.
HandleKeyDown(key) ==
    /\ content.isActive
    /\ LET n == Len(content.results)
           i == content.selectedIndex
       IN  content' =
            CASE key = "Escape" -> HideSelector(content)
              [] key \in {"Enter", "Tab"} ->
                    IF i >= 0 /\ i < n THEN HideSelector(content) ELSE content
              [] key = "ArrowUp" ->
                    IF n > 0
                    THEN [content EXCEPT !.selectedIndex =
                              IF i <= 0 THEN n - 1 ELSE i - 1]
                    ELSE content
              [] key = "ArrowDown" ->
                    IF n > 0
                    THEN [content EXCEPT !.selectedIndex =
                              IF i >= n - 1 THEN 0 ELSE i + 1]
                    ELSE content
    /\ UNCHANGED <<now, remote, tokenVars, tokenCall, storeVars, cacheVars, procVars,
                   config, apiCall, timerVars, adders, reply, normalized,
                   stateCache, feishuConfig, registered, searches, clipboard, checks>>

\* mouseenter on a rendered result item
MouseEnter(index) ==
    /\ content.selector
    /\ index < content.rendered
    /\ content' = [content EXCEPT !.selectedIndex = index]
    /\ UNCHANGED <<now, remote, tokenVars, tokenCall, storeVars, cacheVars, procVars,
                   config, apiCall, timerVars, adders, reply, normalized,
                   stateCache, feishuConfig, registered, searches, clipboard, checks>>

\* handleClick outside the selector
HandleClick ==
    /\ content.isActive
    /\ content.selector
    /\ content' = HideSelector(content)
    /\ UNCHANGED <<now, remote, tokenVars, tokenCall, storeVars, cacheVars, procVars,
                   config, apiCall, timerVars, adders, reply, normalized,
                   stateCache, feishuConfig, registered, searches, clipboard, checks>>

\* handleMessage, TRIGGER_SEARCH with an editable element focused
TriggerSearch ==
    /\ content' = DebounceSearch(ShowSelector(content), <<>>)
    /\ UNCHANGED <<now, remote, tokenVars, tokenCall, storeVars, cacheVars, procVars,
                   config, apiCall, timerVars, adders, reply, normalized,
                   stateCache, feishuConfig, registered, searches, clipboard, checks>>

NextSelector ==
    \/ HandleInput
    \/ SearchTimerFires
    \/ \E s \in Searchers : SearchResponse(s)
    \/ \E key \in SelectorKeys : HandleKeyDown(key)
    \/ \E index \in 0..(Len(SelectorItems) - 1) : MouseEnter(index)
    \/ HandleClick
    \/ TriggerSearch

SpecSelector == InitLocal /\ [][NextSelector]_vars

\* ------------------------------------------ content script: clipboard
\* The texts the clipboard may hold
ClipboardTexts == {1, 2}

\* checkClipboardContent, lines 737-740: the last check that passed the
\* guard is less than CHECK_INTERVAL old
RateLimited(clip, t) ==
    clip.lastCheckTime # NoTime /\ t - clip.lastCheckTime < ClipboardCheckInterval

\* (variant: the guard does not look at isProcessing)
PassesGuardWhileProcessing(clip, t) ==
    clip.isAutoCaptureEnabled /\ ~RateLimited(clip, t)

\* checkClipboardContent, lines 734-740: the invocation goes on
PassesGuard(clip, t) ==
    clip.isAutoCaptureEnabled /\ ~clip.isProcessing /\ ~RateLimited(clip, t)

\* checkClipboardContent from its call to its first await, invoked as k
\* with state.clipboard = clip
Invoke(k, clip) ==
    /\ checks[k].pc = "idle"
    /\ \A j \in Checkers : j < k => checks[j].pc # "idle"
    /\ IF PassesGuard(clip, now)
       THEN /\ clipboard' = [clip EXCEPT !.lastCheckTime = now, !.isProcessing = TRUE]
            /\ checks' = [checks EXCEPT ![k] = [IdleCheck EXCEPT !.pc = "reading"]]
       ELSE /\ clipboard' = clip
            /\ checks' = [checks EXCEPT ![k] = [IdleCheck EXCEPT !.skipped = TRUE]]

\* startClipboardMonitoring: one check at once, then the interval
StartClipboardMonitoring ==
    /\ ~clipboard.checkInterval
    /\ clipboard.isAutoCaptureEnabled
    /\ \E k \in Checkers : Invoke(k, [clipboard EXCEPT !.checkInterval = TRUE])
    /\ UNCHANGED <<now, remote, tokenVars, tokenCall, storeVars, cacheVars, procVars,
                   config, apiCall, timerVars, adders, reply, normalized,
                   stateCache, feishuConfig, registered, content, searches>>

\* A tick of the interval: checkClipboardContent up to its return or its
\* first await
CheckClipboardContent(k) ==
    /\ clipboard.checkInterval
    /\ Invoke(k, clipboard)
    /\ UNCHANGED <<now, remote, tokenVars, tokenCall, storeVars, cacheVars, procVars,
                   config, apiCall, timerVars, adders, reply, normalized,
                   stateCache, feishuConfig, registered, content, searches>>

\* checkClipboardContent, finally
Finally(clip) == [clip EXCEPT !.isProcessing = FALSE]

\* navigator.clipboard.read() and the reading of the text settle: a text
\* that is new, one that is not (or none), or a rejection, which goes
\* through catch to finally.
ClipboardRead(k) ==
    /\ checks[k].pc = "reading"
    /\ \E threw \in BOOLEAN, text \in ClipboardTexts \cup {NoText} :
        IF ~threw /\ text # NoText /\ text # clipboard.lastContent
        THEN /\ checks' = [checks EXCEPT ![k].pc = "processing", ![k].text = text]
             /\ UNCHANGED clipboard
        ELSE /\ checks' = [checks EXCEPT ![k] = [IdleCheck EXCEPT !.failed = threw]]
             /\ clipboard' = Finally(clipboard)
    /\ UNCHANGED <<now, remote, tokenVars, tokenCall, storeVars, cacheVars, procVars,
                   config, apiCall, timerVars, adders, reply, normalized,
                   stateCache, feishuConfig, registered, content, searches>>

\* generateContentHash and showAutoCaptureDialog settle: lastContent is
\* updated, or one of them rejected; finally either way. (Which hashes
\* processedContent holds decides only whether the dialog is shown.)
ClipboardProcess(k) ==
    /\ checks[k].pc = "processing"
    /\ \E threw \in BOOLEAN :
        /\ checks' = [checks EXCEPT ![k] = [IdleCheck EXCEPT !.failed = threw]]
        /\ clipboard' = Finally(IF threw THEN clipboard
                                ELSE [clipboard EXCEPT !.lastContent = checks[k].text])
    /\ UNCHANGED <<now, remote, tokenVars, tokenCall, storeVars, cacheVars, procVars,
                   config, apiCall, timerVars, adders, reply, normalized,
                   stateCache, feishuConfig, registered, content, searches>>

\* The dialog's "stop detecting" button: isAutoCaptureEnabled = false and
\* stopClipboardMonitoring()
DisableAutoCapture ==
    /\ clipboard.checkInterval
    /\ clipboard' = [clipboard EXCEPT !.isAutoCaptureEnabled = FALSE,
                                      !.checkInterval = FALSE]
    /\ UNCHANGED <<now, remote, tokenVars, tokenCall, storeVars, cacheVars, procVars,
                   config, apiCall, timerVars, adders, reply, normalized,
                   stateCache, feishuConfig, registered, content, searches, checks>>

NextClipboard ==
    \/ Tick
    \/ StartClipboardMonitoring
    \/ \E k \in Checkers : CheckClipboardContent(k)
    \/ \E k \in Checkers : ClipboardRead(k)
    \/ \E k \in Checkers : ClipboardProcess(k)
    \/ DisableAutoCapture

SpecClipboard == InitLocal /\ [][NextClipboard]_vars

\* ------------------------------------------------------- specifications
\* The refresh path with the clock.
NextFetch ==
    \/ Tick
    \/ \E p \in Users : ManualRefreshStart(p)
    \/ \E p \in Procs : PageRequest(p)
    \/ \E p \in Procs : SavePermanent(p)
    \/ \E p \in Procs : StampRefresh(p)

SpecFetch == Init /\ [][NextFetch]_vars

\* The same, every awaited call of a running refresh returning: the list
\* request of a loop iteration and the two storage writes.
SpecFetchFair ==
    /\ Init
    /\ [][NextFetch]_vars
    /\ \A p \in Procs : /\ WF_vars(PageRequest(p))
                        /\ WF_vars(SavePermanent(p))
                        /\ WF_vars(StampRefresh(p))

\* Refresh and search together, at one instant: search reads the clock only
\* through getAccessToken, whose two cases (cached token, token endpoint)
\* arise here from the token being held or not.
Next ==
    \/ \E p \in Users : ManualRefreshStart(p)
    \/ \E p \in Procs : PageRequest(p)
    \/ \E p \in Procs : SavePermanent(p)
    \/ \E p \in Procs : StampRefresh(p)
    \/ Search

Spec == Init /\ [][Next]_vars

\* A timer-driven and a user-triggered refresh side by side, with the clock
\* advancing and the remote table being edited meanwhile.
EditedTables == {Table("mixed", MaxRemote), Table("mixed", 1)}

RemoteChanges ==
    /\ remote' \in EditedTables \ {remote}
    /\ searchRes' = NoSearch
    /\ UNCHANGED <<auxVars, now, tokenVars, tokenCall, storeVars, cacheVars, fetch, result>>

\* The worker after initialize() found no stored settings: the timer runs
\* with the default interval.
InitConcurrent ==
    /\ InitCommon
    /\ permanent = NoSnapshot
    /\ remote = Table("mixed", MaxRemote)
    /\ config = FullConfig
    /\ feishuConfig = config
    /\ settings = [DefaultSettings EXCEPT !.initialized = TRUE]
    /\ autoRefreshInterval = StartAutoRefresh(NoTimer, {}, settings, 0).handle
    /\ timers = StartAutoRefresh(NoTimer, {}, settings, 0).timers

NextConcurrent ==
    \/ TimerFires
    \/ \E p \in Users : ManualRefreshStart(p)
    \/ \E p \in Procs : PageRequest(p)
    \/ \E p \in Procs : SavePermanent(p)
    \/ \E p \in Procs : StampRefresh(p)
    \/ Tick
    \/ RemoteChanges

SpecConcurrent == InitConcurrent /\ [][NextConcurrent]_vars


\* ==================================================== properties: full fetch
\* A step in which caller p's refresh returns its response
Returns(p) == result[p].status = "pending" /\ result'[p].status = "done"

\* A step in which caller p's refresh returns because the list request was
\* answered with a token-invalid code
FailsOnTokenInvalid(p) ==
    /\ Returns(p)
    /\ result'[p].cause = "remote"
    /\ result'[p].failKind = "token_invalid"

Returned(p) == FetchSuccess(fetch[p].allPrompts, now)

C5_ContinuationCarried ==
    \A p \in Procs :
        \A i \in 2..Len(fetch[p].sent) :
            fetch[p].sent[i] = fetch[p].returned[i - 1]

\* C10: a manual refresh always enters the fetch loop, whatever is stored;
\* it gets to its write only after a list request was answered; the write
\* replaces the stored snapshot by exactly the fetched records; and it
\* reports success only in the step that records the last-refresh time,
\* after that write.
C10_RefreshAlwaysRefreshes ==
    [][\A p \in Procs :
          /\ (fetch[p].pc = "idle" /\ result'[p].status = "pending") =>
                 /\ fetch'[p].pc = "paging"
                 /\ fetch'[p].sent = <<>>
          /\ (fetch[p].pc = "paging" /\ fetch'[p].pc = "saving") =>
                 /\ Len(fetch'[p].sent) >= 1
                 /\ fetch'[p].outcomes[Len(fetch'[p].outcomes)] = "ok"
          /\ (fetch[p].pc = "saving" /\ fetch'[p].pc = "stamping") =>
                 /\ permanent'.present
                 /\ permanent'.prompts = fetch[p].allPrompts
                 /\ permanent'.count = Len(fetch[p].allPrompts)
                 /\ permanent'.lastUpdated = now
          /\ (Returns(p) /\ result'[p].success) =>
                 /\ fetch[p].pc = "stamping"
                 /\ fetch[p].wrote
                 /\ permanent.present
                 /\ lastRefreshTime' = now
                 /\ result'[p].total = Len(fetch[p].allPrompts)]_vars

\* C10 witness: a refresh begun over a stored snapshot has reported success,
\* and the snapshot and the last-refresh time are of the refresh's instant
C10_Witness ==
    \E p \in Procs :
        /\ result[p].status = "done"
        /\ result[p].success
        /\ result[p].hadSnapshot
        /\ result[p].total > 0
        /\ permanent.present
        /\ Len(permanent.prompts) = result[p].total
        /\ lastRefreshTime = now
        /\ now > 0

\* ======================================================= properties: token
\* C3: when getAccessToken returned a token, and it is called again with the
\* token neither cleared in between nor older than TokenCacheDuration, the
\* second call returns the same token and sends nothing to the token
\* endpoint: the two calls together made the one request of the first.
C3_TokenIdempotent ==
    [][(/\ tokenCall'.seq # tokenCall.seq
        /\ tokenCall.ok
        /\ tokenCall.clean
        /\ now - tokenCall.obtainedAt <= TokenCacheDuration)
       => (/\ tokenCall'.ok
           /\ tokenCall'.token = tokenCall.token
           /\ ~tokenCall'.requested
           /\ UNCHANGED <<accessToken, tokenExpiry>>)]_vars

\* C3 witness: a call answered from the cached token, right after the call
\* that fetched that token from the endpoint
C3_Witness ==
    /\ tokenCall.ok
    /\ ~tokenCall.requested
    /\ tokenCall.prevOk
    /\ tokenCall.prevRequested
    /\ tokenCall.token = accessToken

C7_EvictionReachesStorage ==
    (cacheRet.op = "getCache" /\ cacheRet.expired) =>
        /\ cacheRet.value = NoData
        /\ ~memCache[cacheRet.key].present
        /\ ~syncCache[cacheRet.key].present

\* ====================================================== properties: search
\* What the stored data holds for a search, stated from the stored data:
\* the snapshot records that contain the keyword (letter case ignored) and
\* are of the category asked for, and the recent entries that contain the
\* keyword.
KeywordMatches(text, keyword) ==
    \/ keyword = <<>>
    \/ Includes(ToLowerCase(text), ToLowerCase(keyword))

SnapshotHits(keyword, category) ==
    SelectSeq(permanent.prompts,
              LAMBDA r : /\ KeywordMatches(r.prompt, keyword)
                         /\ (category = "" \/ r.category = category))

RecentHits(keyword) ==
    SelectSeq(recent, LAMBDA e : KeywordMatches(e.prompt, keyword))

\* The first n snapshot hits, then recent hits in the room that is left
ExpectedLocal(keyword, category, n) ==
    Slice(SnapshotHits(keyword, category), n)
      \o Slice(RecentHits(keyword), n - Len(Slice(SnapshotHits(keyword, category), n)))

\* A step in which handleSearchPrompts returns
SearchReturns == searchRes'.done

C11_SingleTimer ==
    /\ [](/\ Cardinality(timers) <= 1
          /\ \A t \in timers : t.id = autoRefreshInterval
          /\ autoRefreshInterval = NoTimer => timers = {})
    /\ [][(timers' \ timers # {}) => (timers' \cap timers = {})]_vars

\* C11 witness: a timer started while another was live has replaced it
C11_Witness ==
    /\ timerCall.op = "setAutoRefresh"
    /\ timerCall.enabled
    /\ \E t \in timers : t.id = autoRefreshInterval /\ t.interval = MinInterval
    /\ settings.initialized
    /\ settings.enabled # "false"
    /\ settings.interval = MaxInterval + 1

\* C12: when handleSetAutoRefreshSettings has answered a request with
\* enabled = false, no timer is live and no handle is held, until the next
\* operation on the timer; the request leaves a refresh in flight as it was,
\* and the refresh goes on to its own end.
C12_DisableCancelsTimer ==
    /\ []((timerCall.op = "setAutoRefresh" /\ ~timerCall.enabled) =>
             (timers = {} /\ autoRefreshInterval = NoTimer /\ timerCall.success))
    /\ [][(/\ timerCall'.seq # timerCall.seq
           /\ timerCall'.op = "setAutoRefresh"
           /\ ~timerCall'.enabled)
          => UNCHANGED <<fetch, result, permanent, lastRefreshTime>>]_vars
    /\ [](\A p \in Procs :
             (fetch[p].pc = "paging" /\ timers = {}) => ENABLED PageRequest(p))

\* C12 witness: the timer was disabled while the refresh it had started was
\* in flight, and that refresh has since reported success
C12_Witness ==
    /\ timerCall.op = "setAutoRefresh"
    /\ ~timerCall.enabled
    /\ timers = {}
    /\ result["timer"].status = "done"
    /\ result["timer"].success

\* C13, as the claim states it: the interval of every live auto-refresh
\* timer lies between MinInterval and MaxInterval minutes.
C13_IntervalBounded ==
    \A t \in timers : MinInterval <= t.interval /\ t.interval <= MaxInterval


\* =========================================== properties: concurrent refresh
\* C14: when a timer-driven and a user-triggered refresh interleave, every
\* write of the permanent snapshot stores the whole result of one of them:
\* the records that refresh collected, their number as count and the time
\* of that write as lastUpdated; so the snapshot stored at any moment, the
\* final one included, is that of the write that landed last.
C14_SnapshotOfOneRefresh ==
    /\ [](permanent.present => permanent.count = Len(permanent.prompts))
    /\ [][permanent' # permanent =>
            \E p \in Procs :
                /\ fetch[p].pc = "saving"
                /\ fetch'[p].wrote
                /\ permanent' = [present     |-> TRUE,
                                 prompts     |-> fetch[p].allPrompts,
                                 count       |-> Len(fetch[p].allPrompts),
                                 lastUpdated |-> now]]_vars

\* Both refreshes have written, with different records; the snapshot is
\* the timer's and was written after the clock moved.
C14_Witness ==
    /\ fetch["user"].pc = "stamping"
    /\ fetch["timer"].pc = "stamping"
    /\ fetch["user"].wrote /\ fetch["timer"].wrote
    /\ fetch["user"].allPrompts # fetch["timer"].allPrompts
    /\ fetch["user"].allPrompts # <<>>
    /\ permanent.prompts = fetch["timer"].allPrompts
    /\ permanent.lastUpdated = now
    /\ now > 0

\* ================================================= properties: recent list
\* C15: no update is lost: once calls of addRecentPrompt have completed
\* (each having read the stored list successfully), the prompt of every
\* one of them is in the stored recent list, unless the list is at its size
\* limit.
C15_NoLostUpdate ==
    (\A c \in Adders : adders[c].pc = "idle" /\ adders[c].readOk) =>
        \A c \in Adders :
            adders[c].done =>
                \/ \E i \in 1..Len(recent) : recent[i].id = adders[c].prompt.id
                \/ Len(recent) >= SettingsMaxRecentItems

\* ==================================================== properties: dispatcher
\* C16: every message that went through the listener is answered with an
\* object that has a boolean success field and, when success is false, an
\* error; no answer is a rejection left unhandled. An unknown action, a
\* request that cannot be destructured and a handler whose fetch or
\* storage call failed (and is not swallowed below it) are answered with
\* success false.
C16_StructuredReply ==
    reply.request # "none" =>
        /\ ~reply.rejected
        /\ reply.hasSuccess
        /\ ~reply.success => reply.error # "none"
        /\ reply.request \in {"UNKNOWN", "NULL_REQUEST"} => ~reply.success
        /\ (reply.failed /\ ~SwallowsFailure(reply.request)) => ~reply.success

\* A request that made handleIncomingMessage throw was answered with a
\* failure carrying the error and its code.
C16_Witness ==
    /\ reply.request = "NULL_REQUEST"
    /\ ~reply.success
    /\ reply.error = "plain"
    /\ reply.code = "UNKNOWN_ERROR"

\* =================================================== properties: termination
\* C17: every manual refresh that was begun is answered, with success or
\* with failure, provided each of its awaited calls returns.
C17_RefreshAnswered ==
    \A p \in Procs : (result[p].status = "pending") ~> (result[p].status = "done")

\* ==================================================== properties: apiRequest
\* C18: with a configuration that lacks the app id or the app secret, a
\* call that needs a token fails with CONFIG_ERROR and sends no request,
\* neither to the token endpoint nor to the remote.
C18_ConfigCheckedFirst ==
    (apiCall.kind # "none" /\ ~(config.appId /\ config.appSecret)) =>
        /\ apiCall.code = "CONFIG_ERROR"
        /\ apiCall.tokenRequests = 0
        /\ apiCall.requests = 0

\* C19: a request the remote answers with the rate-limit code is sent once
\* and fails with RATE_LIMIT_ERROR, whatever its message says.
C19_RateLimitPropagates ==
    apiCall.kind = "rate_limit" =>
        /\ apiCall.requests = 1
        /\ apiCall.code = "RATE_LIMIT_ERROR"

\* ==================================================== properties: normalizer
\* C20: processPromptData drops every item whose prompt field is missing
\* or is empty after trimming (blanks only): no record of its output has a
\* blank prompt, and the output has as many records as the input has items
\* with content.
C20_BlankDropped ==
    LET IsBlank(text) == \A i \in 1..Len(text) : text[i] = " "
        HasContent(item) == /\ "prompt" \in DOMAIN item.fields
                            /\ ~IsBlank(item.fields.prompt)
    IN  normalized.called =>
            /\ \A i \in 1..Len(normalized.output) :
                  ~IsBlank(normalized.output[i].prompt)
            /\ Len(normalized.output) =
                  Len(SelectSeq(normalized.input, HasContent))

\* C21: the variables of every normalized record are the names of the
\* {{name}} placeholders of its content, in the order of their first
\* occurrence and without duplicates.
C21_VariablesFromContent ==
    LET NameOf(piece) == CASE piece = "{{n}}" -> "n"
                           [] piece = "{{m}}" -> "m"
                           [] OTHER           -> ""
        FirstAt(text, i) == /\ NameOf(text[i]) # ""
                            /\ \A j \in 1..(i - 1) : text[j] # text[i]
        Count(text, i) == Cardinality({j \in 1..i : FirstAt(text, j)})
        Placeholders(text) ==
            [k \in 1..Count(text, Len(text)) |->
                NameOf(text[CHOOSE i \in 1..Len(text) :
                                FirstAt(text, i) /\ Count(text, i) = k])]
    IN  normalized.called =>
            \A i \in 1..Len(normalized.output) :
                normalized.output[i].variables
                    = Placeholders(normalized.output[i].prompt)

\* =================================================== properties: queries
\* C22: a search request with sortBy and sortOrder is answered with its
\* records ordered by that field in that direction (here: by id, a number).
C22_SortedResults ==
    (searchRes.done /\ searchRes.success /\ searchRes.sort.sortBy = "id") =>
        \A i, j \in 1..Len(searchRes.prompts) :
            i < j =>
                IF searchRes.sort.sortOrder = "asc"
                THEN searchRes.prompts[i].id <= searchRes.prompts[j].id
                ELSE searchRes.prompts[i].id >= searchRes.prompts[j].id

\* C23: the filters of a search are AND-combined: every record of a
\* successful answer contains the keyword (when one was given) and is of
\* the category asked for (when one was given).
C23_FiltersCombined ==
    (searchRes.done /\ searchRes.success) =>
        \A i \in 1..Len(searchRes.prompts) :
            /\ KeywordMatches(searchRes.prompts[i].prompt, searchRes.keyword)
            /\ searchRes.category # "" =>
                   searchRes.prompts[i].category = searchRes.category

\* C24: a createPrompt message whose handling meets no failure is answered
\* with success true.
C24_CreatePromptServed ==
    (reply.request = "createPrompt" /\ ~reply.failed) => reply.success

\* ================================================ properties: snapshot clear
\* C25: clearPermanentPrompts removes the stored snapshot and touches
\* nothing else: the ephemeral cache, the cached token, the settings, the
\* recent list, the timer and the request histories (no request is made)
\* stay as they were; getPermanentPromptsInfo called next reports
\* hasPermanentData false and count 0.
C25_ClearIsLocal ==
    /\ []((cacheRet.op = "getPermanentInfo" /\ cacheRet.followsClear) =>
            (~cacheRet.hasPrompts /\ cacheRet.count = 0))
    /\ []((cacheRet.op = "clearPermanent" /\ cacheRet.ok) => ~permanent.present)
    /\ [][(cacheRet'.op = "clearPermanent" /\ now' = now) =>
            UNCHANGED <<remote, accessToken, tokenExpiry, tokenCall, apiCall,
                        syncCache, memCache, localStore, recent, lastRefreshTime,
                        settings, autoRefreshInterval, timers, config>>]_vars

\* A stored snapshot was cleared while a token was cached, a cache entry
\* set, the recent list non-empty and the timer running.
C25_Witness ==
    /\ cacheRet.op = "clearPermanent"
    /\ cacheRet.ok
    /\ cacheRet.hasPrompts
    /\ permanent = NoSnapshot
    /\ accessToken # NoToken
    /\ recent # <<>>
    /\ timers # {}
    /\ \E k \in CacheKeys : memCache[k].present /\ syncCache[k].present

\* ============================================== properties: invalidation
\* C26: after feishuApiService.clearCache or the token-invalid branch of
\* apiRequest, no token is cached (accessToken null, tokenExpiry 0) whatever
\* was cached before; the getAccessToken call that follows asks the token
\* endpoint; and an invalidation that directly follows one of the same kind
\* changes nothing in the token or in either cache.
C26_InvalidationClears ==
    /\ [](tokenCall.inval # "none" => (accessToken = NoToken /\ tokenExpiry = 0))
    /\ [][(tokenCall'.seq # tokenCall.seq /\ tokenCall.inval # "none")
            => tokenCall'.requested]_vars
    /\ [][(/\ tokenCall'.invSeq # tokenCall.invSeq
           /\ tokenCall.inval # "none"
           /\ tokenCall'.inval = tokenCall.inval
           /\ (tokenCall.inval = "cleared") => (cacheRet.op = "clearCache" /\ cacheRet.ok))
            => UNCHANGED <<accessToken, tokenExpiry, syncCache, memCache,
                           localStore, storeVars>>]_vars

\* A token obtained from the endpoint, invalidated, and fetched again from
\* the endpoint by the call that followed.
C26_Witness ==
    /\ tokenCall.ok
    /\ tokenCall.requested
    /\ tokenCall.prevRequested
    /\ tokenCall.prevInval = "cleared"
    /\ tokenCall.obtainedAt = now
    /\ accessToken # NoToken
    /\ \E k \in CacheKeys : localStore[k].present

\* ============================================ properties: token lifetime
\* C27: a getAccessToken call that answers from the cache returns a token
\* obtained at most TokenCacheDuration ago, and a call made while the
\* cached token is older than that asks the token endpoint.
C27_TokenLifetime ==
    /\ [][(tokenCall'.seq # tokenCall.seq /\ tokenCall'.ok /\ ~tokenCall'.requested)
            => (/\ tokenCall'.obtainedAt # NoTime
                /\ now' - tokenCall'.obtainedAt <= TokenCacheDuration)]_vars
    /\ [][(/\ tokenCall'.seq # tokenCall.seq
           /\ accessToken # NoToken
           /\ now - tokenExpiry > TokenCacheDuration)
            => tokenCall'.requested]_vars

\* A token that was left alone until it was older than TokenCacheDuration,
\* replaced by the call that found it so.
C27_Witness ==
    /\ tokenCall.ok
    /\ tokenCall.requested
    /\ tokenCall.prevOk
    /\ tokenCall.prevInval = "none"
    /\ tokenCall.obtainedAt = now
    /\ now > TokenCacheDuration

\* ================================================= properties: unique ids
\* C28: the snapshot a refresh writes holds no two records with the same
\* id (the remote's record_ids are distinct).
C28_UniqueIds ==
    permanent.present =>
        \A i, j \in 1..Len(permanent.prompts) :
            permanent.prompts[i].id = permanent.prompts[j].id => i = j

\* ========================================= properties: validity boundary
\* C29: a read of a cache that holds an entry for the key returns the
\* entry's data exactly when now - timestamp <= ttl, in StorageManager's
\* cache, in CacheUtils' and in the popup's alike.
C29_ValidAtBoundary ==
    [][LET store == CASE cacheRet'.op = "getCache"      -> memCache
                      [] cacheRet'.op = "cacheUtilsGet" -> localStore
                      [] OTHER                          -> stateCache
           entry == store[cacheRet'.key]
           ttl   == IF cacheRet'.op = "cacheUtilsGet" THEN entry.duration
                    ELSE CacheDuration
       IN  (/\ cacheRet' # cacheRet
            /\ cacheRet'.op \in {"getCache", "cacheUtilsGet", "getCachedData"}
            /\ entry.present)
           => ((cacheRet'.value = entry.data) <=> (now - entry.timestamp <= ttl))]_vars

\* ================================================ properties: cache sweep
\* C30: an expired entry held in chrome.storage.sync is eventually gone
\* from it (removed or replaced), unless a getCache call reads its key.
C30_ExpiredSwept ==
    \A k \in CacheKeys :
        (syncCache[k].present /\ IsExpired(syncCache[k].timestamp, CacheDuration, now))
          ~> (\/ ~syncCache[k].present
              \/ ~IsExpired(syncCache[k].timestamp, CacheDuration, now)
              \/ (cacheRet.op = "getCache" /\ cacheRet.key = k))

\* ================================================ properties: soft cap
\* C31: the iteration of a full fetch that takes the running total from
\* below MaxRecordsWarning to at or above it logs a warning.
C31_WarnsOnCrossing ==
    [][\A p \in Procs :
        (/\ fetch[p].pc = "paging"
         /\ fetch'[p].pc # "idle"
         /\ fetch[p].totalFetched < MaxRecordsWarning
         /\ fetch'[p].totalFetched >= MaxRecordsWarning)
        => fetch'[p].warning # "none"]_vars

\* ===================================== properties: timer follows setting
\* C32: when a SET_AUTO_REFRESH_SETTINGS or SAVE_SETTINGS request has been
\* answered with success, a timer is live exactly if the last request that
\* carried an auto-refresh setting asked for it enabled.
C32_TimerFollowsSetting ==
    (/\ timerCall.op \in {"setAutoRefresh", "saveSettings"}
     /\ timerCall.success
     /\ timerCall.requested \in {"true", "false"})
    => (timers # {} <=> timerCall.requested = "true")

\* ======================================== properties: saved configuration
\* C33: a request of the worker (to the token endpoint or to the remote)
\* is built from the configuration most recently saved.
C33_SavedConfigUsed ==
    [][apiCall'.seq # apiCall.seq => apiCall'.used = feishuConfig]_vars

\* ============================================ properties: failed refresh
\* C34: when a manual refresh answers success false, the stored snapshot
\* is what it was when the refresh started; here for a refresh that
\* started with no snapshot stored: none is stored when it has failed.
C34_FailedRefreshChangesNothing ==
    [][\A p \in Procs :
        (/\ result[p].status = "pending"
         /\ result'[p].status = "done"
         /\ ~result'[p].success
         /\ ~result[p].hadSnapshot)
        => ~permanent'.present]_vars

\* ========================================== properties: registrations
\* C35: however often initialize() has run, one runtime message listener
\* and one keep-alive interval at most have been registered.
C35_RegisteredOnce ==
    registered.listeners <= 1 /\ registered.keepAlives <= 1

\* ======================================= properties: recent-list invariant
\* C36: the stored recent list never holds two entries with the same id
\* nor more than settings.maxRecentItems entries, and a call of
\* addRecentPrompt that completes leaves its prompt at index 0.
C36_RecentListInvariant ==
    /\ [](/\ Len(recent) <= SettingsMaxRecentItems
          /\ \A i, j \in 1..Len(recent) :
                recent[i].id = recent[j].id => i = j)
    /\ [][\A c \in Adders :
            (/\ adders[c].pc = "read"
             /\ adders'[c].pc = "idle"
             /\ adders'[c].done)
            => (/\ recent' # <<>>
                /\ recent'[1].id = adders[c].prompt.id)]_vars

\* calls have completed one after the other, the list is at its limit and
\* starts with the prompt of a completed call
C36_Witness ==
    /\ \A c \in Adders : adders[c].pc = "idle" /\ adders[c].done
    /\ Len(recent) = SettingsMaxRecentItems
    /\ \E c \in Adders : recent[1].id = adders[c].prompt.id

\* ============================================ properties: selection index
\* C37: selectedIndex is -1 or an index into results; -1 when results is
\* empty.
C37_SelectionValid ==
    /\ -1 <= content.selectedIndex
    /\ content.selectedIndex < Len(content.results)

\* ============================================ properties: inactive selector
\* C38: while the selector is inactive, results is empty, selectedIndex is
\* -1 and no search timer is pending.
C38_InactiveHoldsNothing ==
    (~content.isActive /\ ~content.selector) =>
        /\ content.results = <<>>
        /\ content.selectedIndex = -1
        /\ ~content.searchTimeout.pending

\* ============================================ properties: latest query wins
\* C39: once no search awaits its response, the results a response has
\* left in state are those of the search sent last.
C39_LatestQueryWins ==
    (/\ \A s \in Searchers : searches[s].pc = "idle"
     /\ content.isActive
     /\ content.fresh # "none")
    => content.fresh = "latest"

\* ============================================ properties: clipboard check
\* C40: one checkClipboardContent invocation at most is past its guard,
\* and isProcessing is true exactly while one is: it is false again when
\* the invocation has ended, in its catch block or not.
C40_OneCheckAtATime ==
    /\ Cardinality({k \in Checkers : checks[k].pc # "idle"}) <= 1
    /\ clipboard.isProcessing <=> (\E k \in Checkers : checks[k].pc # "idle")

\* a tick has returned at its guard while an invocation was in progress,
\* and that invocation has ended in its catch block
C40_Witness ==
    /\ ~clipboard.isProcessing
    /\ checks[1].pc = "idle" /\ checks[1].failed
    /\ checks[2].skipped
====
